---- MODULE Spec2Model ----
(***************************************************************************)
(* Outline inference (PDFBookmarkModel.auto_generate_toc) and flat-to-     *)
(* nested outline reconstruction (PDFEngine.extract_toc and                *)
(* PDFRenderer.get_toc), with the application around them: the metadata    *)
(* store (Storage, PDFManager, BookmarkService), CoreApp.scan and the ToC  *)
(* actions of MainController.                                              *)
(*                                                                         *)
(* Conventions                                                             *)
(*  - A text is a sequence of one-character strings.  "A" and "B" are the  *)
(*    alphabetic characters, "1" a non-alphabetic one, " " is whitespace.  *)
(*  - A font size is an integer number of twentieths of a point (10pt is   *)
(*    200).  Sizes of spans lie on the tenth-of-a-point grid, so that the  *)
(*    median of an even number of sizes is again an integer.  Products     *)
(*    with 0.9 are compared exactly (10 * x >= 9 * y).                     *)
(*  - Python's None is the empty sequence <<>> and a present value v is    *)
(*    <<v>> (current_level, body_color_key, dest).  For a text the code    *)
(*    only tests truthiness, so None and "" are both <<>>.                 *)
(***************************************************************************)
EXTENDS Integers, Sequences, FiniteSets, TLC

VARIABLES
    \* ---- PDFBookmarkModel ----
    doc,                 \* self.doc: <<>> (None) or <<pages>>
    self_toc,            \* self.toc
    generated,           \* self.generated
    modified,            \* self.modified
    returns,             \* the completed calls of auto_generate_toc, in order:
                         \* the arguments, the outline left in self.toc and
                         \* the value returned
    \* ---- auto_generate_toc: arguments and locals ----
    pc,                  \* position in auto_generate_toc
    font_threshold, max_levels, force_page_heading,
    body_size, heading_sizes, body_color_key,
    toc, seen,
    page_num,            \* 1-based number of the page of the pass-2 loop
    line_idx,            \* index of the next line of that page
    page_best_size, page_best_text, page_best_color, page_had_heading,
    current_title, current_level,
    \* ---- PDFEngine.extract_toc: input and locals ----
    tpc,                 \* position in extract_toc
    toc_raw,             \* doc.get_toc(simple=False)
    item_idx,            \* index of the next item of toc_raw
    nodes,               \* the node dicts created so far, by item index
    toc_tree,            \* roots, as node indices
    stack,               \* ancestor stack of [level, node]
    \* ---- PDFRenderer.get_toc: input and locals ----
    rpc,                 \* position in get_toc
    r_raw,               \* doc.get_toc(): items [lvl, title, page]
    r_idx,               \* index of the next item of r_raw
    r_nodes,             \* the node dicts created so far, by item index
    r_tree,              \* roots, as node indices
    r_stack,             \* ancestor stack of [level, node]
    \* ---- Storage, CoreApp, MainController ----
    now,                 \* the clock, in seconds (the resolution of the stamps)
    pdf_metadata,        \* table pdf_metadata: file -> <<>> or <<row>>
    root_history,        \* table root_history: the rows, in rowid order
    current_plan,        \* CoreApp.current_plan: <<>> or <<file -> row>>
    current_root,        \* the folder loaded in the main window: <<>> or <<path>>
    result,              \* the last call that returned a value, and the value
    toggles,             \* per file, the number of toggle_bookmark calls so far
    recent,              \* the paths saved so far, the latest save first
    \* ---- PDFBookmarkModel: the attached file and the calls made ----
    pdf_path,            \* self.pdf_path: <<>> (None) or <<path>>
    doc_toc,             \* the outline held by the attached document object:
                         \* <<>> when doc.get_toc() raises, else <<outline>>
    calls                \* the calls of the model's methods that have ended,
                         \* in order: the method, and whether it returned

tocVars  == <<doc, self_toc, generated, modified, returns, pc, font_threshold, max_levels,
              force_page_heading, body_size, heading_sizes, body_color_key, toc,
              seen, page_num, line_idx, page_best_size, page_best_text,
              page_best_color, page_had_heading, current_title, current_level>>
rVars    == <<rpc, r_raw, r_idx, r_nodes, r_tree, r_stack>>
treeVars == <<tpc, toc_raw, item_idx, nodes, toc_tree, stack, rVars>>
appVars  == <<now, pdf_metadata, root_history, current_plan, current_root, result,
              toggles, recent>>
lifeVars == <<pdf_path, doc_toc, calls>>
vars     == <<tocVars, treeVars, appVars, lifeVars>>

None    == <<>>
Some(v) == <<v>>

----------------------------------------------------------------------------
(* Bounds of the explored inputs *)

MaxPages == 2      \* pages of a document
MaxLines == 3      \* text lines of a document
MaxItems == 3      \* entries of a flat outline
MaxCalls == 3      \* calls of auto_generate_toc on one document
MaxClock == 1      \* seconds the clock advances
MaxToggles == 3    \* calls of toggle_bookmark on one file
MaxOps == 4        \* calls of the methods of one PDFBookmarkModel

\* the PDF files of the scanned folder
Files == {"dummy_with_toc.pdf", "dummy_no_toc.pdf"}

----------------------------------------------------------------------------
(* Generic sequence helpers *)

Range(s) == {s[i] : i \in 1..Len(s)}

RECURSIVE Flatten(_)
Flatten(ss) == IF ss = <<>> THEN <<>> ELSE Head(ss) \o Flatten(Tail(ss))

RECURSIVE Reverse(_)
Reverse(s) == IF s = <<>> THEN <<>> ELSE Append(Reverse(Tail(s)), Head(s))

SetMax(S) == CHOOSE x \in S : \A y \in S : y <= x
SetMin(S) == CHOOSE x \in S : \A y \in S : x <= y

RECURSIVE InsertSorted(_, _)
InsertSorted(x, s) ==
    IF s = <<>> THEN <<x>>
    ELSE IF x < Head(s) THEN <<x>> \o s
    ELSE <<Head(s)>> \o InsertSorted(x, Tail(s))

\* sorted(xs): ascending, stable
RECURSIVE sorted(_)
sorted(xs) ==
    IF xs = <<>> THEN <<>>
    ELSE InsertSorted(xs[Len(xs)], sorted(SubSeq(xs, 1, Len(xs) - 1)))

\* sorted(set(...)): the elements of a set in ascending order
RECURSIVE SortedSet(_)
SortedSet(S) ==
    IF S = {} THEN <<>>
    ELSE <<SetMin(S)>> \o SortedSet(S \ {SetMin(S)})

\* Python slice bounds: a negative index counts from the end, and the
\* result is clamped to 0..n
SliceIndex(k, n) ==
    IF k < 0 THEN (IF n + k < 0 THEN 0 ELSE n + k)
    ELSE (IF k > n THEN n ELSE k)

SliceFrom(xs, k) == SubSeq(xs, SliceIndex(k, Len(xs)) + 1, Len(xs))   \* xs[k:]
SliceTo(xs, k)   == SubSeq(xs, 1, SliceIndex(k, Len(xs)))             \* xs[:k]

\* max(counts, key=counts.get) over a dict filled in the order of keys:
\* the most frequent key, the first inserted one among equals; None if empty
Count(keys, k) == Cardinality({i \in 1..Len(keys) : keys[i] = k})
MostFrequent(keys) ==
    IF keys = <<>> THEN None
    ELSE LET best == SetMax({Count(keys, keys[i]) : i \in 1..Len(keys)})
             first == SetMin({i \in 1..Len(keys) : Count(keys, keys[i]) = best})
         IN  Some(keys[first])

----------------------------------------------------------------------------
(* Texts *)

AlphaChars == {"A", "B"}

isalpha_any(t) == \E i \in 1..Len(t) : t[i] \in AlphaChars

RECURSIVE lstrip(_)
lstrip(t) == IF t # <<>> /\ Head(t) = " " THEN lstrip(Tail(t)) ELSE t

strip(t) == Reverse(lstrip(Reverse(lstrip(t))))

\* " ".join(parts)
RECURSIVE join_space(_)
join_space(parts) ==
    IF parts = <<>> THEN <<>>
    ELSE IF Len(parts) = 1 THEN parts[1]
    ELSE parts[1] \o <<" ">> \o join_space(Tail(parts))

----------------------------------------------------------------------------
(* Layout source: a page either fails to extract (ok = FALSE) or yields    *)
(* blocks; a block is the sequence of its lines (none for an image block); *)
(* a line is the sequence of its spans [text, size, color].                *)

PageLines(page) == Flatten(page.blocks)

\* the spans the passes read: every span of every extracted page, in order
DocSpans(pages) ==
    Flatten([p \in 1..Len(pages) |->
        IF pages[p].ok THEN Flatten(PageLines(pages[p])) ELSE <<>>])

----------------------------------------------------------------------------
(* Pass 1: font sizes, body size, heading sizes *)

IsTextSpan(span) == strip(span.text) # <<>> /\ isalpha_any(strip(span.text))

\* variant: a span of size 0 counts too
collect_sizes_unsized(pages) ==
    LET spans == SelectSeq(DocSpans(pages), IsTextSpan)
    IN  [i \in 1..Len(spans) |-> spans[i].size]

collect_sizes(pages) ==
    LET Usable(span) == IsTextSpan(span) /\ span.size > 0
        spans == SelectSeq(DocSpans(pages), Usable)
    IN  [i \in 1..Len(spans) |-> spans[i].size]

\* round(x * 2.0) / 2.0, with round() rounding a tie to the even integer
round05(x) ==
    LET q == x \div 10
        r == x % 10
    IN  IF r < 5 THEN 10 * q
        ELSE IF r > 5 THEN 10 * (q + 1)
        ELSE IF q % 2 = 0 THEN 10 * q ELSE 10 * (q + 1)

\* variant: the median is rounded to 0.5 like the distinct sizes
median_rounded(all_sizes) ==
    LET s   == sorted(all_sizes)
        mid == Len(s) \div 2
    IN  round05(IF Len(s) % 2 = 0 THEN (s[mid] + s[mid + 1]) \div 2
                ELSE s[mid + 1])

median(all_sizes) ==
    LET s   == sorted(all_sizes)
        mid == Len(s) \div 2
    IN  IF Len(s) % 2 = 0 THEN (s[mid] + s[mid + 1]) \div 2
        ELSE s[mid + 1]

unique_sizes(all_sizes) == SortedSet({round05(all_sizes[i]) : i \in 1..Len(all_sizes)})

max2(a, b) == IF a >= b THEN a ELSE b

\* variant: the heading sizes are not cut to max_levels
compute_heading_sizes_uncut(all_sizes, body, fthreshold, mlevels) ==
    LET threshold  == max2(body, fthreshold)
        uniq       == unique_sizes(all_sizes)
        Above(s)   == s > threshold
        above      == SelectSeq(uniq, Above)
        candidates == IF above = <<>> THEN SliceFrom(uniq, 0 - mlevels) ELSE above
    IN  Reverse(sorted(candidates))

\* variant: the heading sizes stay in ascending order
compute_heading_sizes_ascending(all_sizes, body, fthreshold, mlevels) ==
    LET threshold  == max2(body, fthreshold)
        uniq       == unique_sizes(all_sizes)
        Above(s)   == s > threshold
        above      == SelectSeq(uniq, Above)
        candidates == IF above = <<>> THEN SliceFrom(uniq, 0 - mlevels) ELSE above
    IN  SliceTo(sorted(candidates), mlevels)

\* variant: without the fallback to the largest sizes observed
compute_heading_sizes_no_fallback(all_sizes, body, fthreshold, mlevels) ==
    LET threshold  == max2(body, fthreshold)
        uniq       == unique_sizes(all_sizes)
        Above(s)   == s > threshold
        above      == SelectSeq(uniq, Above)
    IN  SliceTo(Reverse(sorted(above)), mlevels)

compute_heading_sizes(all_sizes, body, fthreshold, mlevels) ==
    LET threshold  == max2(body, fthreshold)
        uniq       == unique_sizes(all_sizes)
        Above(s)   == s > threshold
        above      == SelectSeq(uniq, Above)
        candidates == IF above = <<>> THEN SliceFrom(uniq, 0 - mlevels) ELSE above
    IN  SliceTo(Reverse(sorted(candidates)), mlevels)

\* size_to_level[hs] for a heading size hs: idx + 1 (a later idx overwrites)
size_to_level(hsizes, hs) == SetMax({i \in 1..Len(hsizes) : hsizes[i] = hs})

----------------------------------------------------------------------------
(* Pass 1b: body colour *)

compute_body_color(pages, body) ==
    LET Near(span) == /\ IsTextSpan(span)
                      /\ span.size - body <= 20
                      /\ body - span.size <= 20
        spans == SelectSeq(DocSpans(pages), Near)
    IN  MostFrequent([i \in 1..Len(spans) |-> spans[i].color])

----------------------------------------------------------------------------
(* Pass 2: what the scan computes for one line *)

line_parts(spans) ==
    LET HasText(span) == span.text # <<>>
    IN  SelectSeq(spans, HasText)

line_text(spans) ==
    LET parts == line_parts(spans)
    IN  strip(join_space([i \in 1..Len(parts) |-> parts[i].text]))

is_blank(spans) == line_text(spans) = <<>> \/ ~isalpha_any(line_text(spans))

line_max_size(spans) ==
    LET parts == line_parts(spans)
    IN  IF parts = <<>> THEN 0
        ELSE SetMax({parts[i].size : i \in 1..Len(parts)})

line_color_key(spans) ==
    LET parts == line_parts(spans)
    IN  MostFrequent([i \in 1..Len(parts) |-> parts[i].color])

\* variant: the last (smallest) heading size the line meets decides
RECURSIVE size_scan_last(_, _, _)
size_scan_last(hsizes, i, s_rounded) ==
    IF i > Len(hsizes) THEN None
    ELSE IF size_scan_last(hsizes, i + 1, s_rounded) # None
         THEN size_scan_last(hsizes, i + 1, s_rounded)
    ELSE IF s_rounded >= hsizes[i] THEN Some(size_to_level(hsizes, hsizes[i]))
    ELSE None

\* for hs in heading_sizes: if s_rounded >= hs: level = size_to_level[hs]; break
RECURSIVE size_scan(_, _, _)
size_scan(hsizes, i, s_rounded) ==
    IF i > Len(hsizes) THEN None
    ELSE IF s_rounded >= hsizes[i] THEN Some(size_to_level(hsizes, hsizes[i]))
    ELSE size_scan(hsizes, i + 1, s_rounded)

size_level(hsizes, s_rounded) == size_scan(hsizes, 1, s_rounded)

\* variant: the last (smallest) heading size met at 0.9x decides
RECURSIVE color_scan_last(_, _, _)
color_scan_last(hsizes, i, msize) ==
    IF i > Len(hsizes) THEN None
    ELSE IF color_scan_last(hsizes, i + 1, msize) # None
         THEN color_scan_last(hsizes, i + 1, msize)
    ELSE IF 10 * msize >= 9 * hsizes[i] THEN Some(size_to_level(hsizes, hsizes[i]))
    ELSE None

\* for hs in heading_sizes: if max_size >= hs * 0.9: level = size_to_level[hs]; break
RECURSIVE color_scan(_, _, _)
color_scan(hsizes, i, msize) ==
    IF i > Len(hsizes) THEN None
    ELSE IF 10 * msize >= 9 * hsizes[i] THEN Some(size_to_level(hsizes, hsizes[i]))
    ELSE color_scan(hsizes, i + 1, msize)

color_level(hsizes, body, bcolor, lcolor, msize) ==
    LET is_color_heading == bcolor # None /\ lcolor # None /\ lcolor # bcolor
    IN  IF is_color_heading /\ 10 * msize >= 9 * body
        THEN IF hsizes # <<>>
             THEN (IF color_scan(hsizes, 1, msize) = None
                   THEN Some(Len(hsizes))
                   ELSE color_scan(hsizes, 1, msize))
             ELSE Some(1)
        ELSE None

\* heading_level of a non-blank line: None, or the level
line_heading_level(hsizes, body, bcolor, spans) ==
    LET by_size == size_level(hsizes, round05(line_max_size(spans)))
    IN  IF by_size # None THEN by_size
        ELSE color_level(hsizes, body, bcolor, line_color_key(spans),
                         line_max_size(spans))

\* variant: commits the pending title without consulting the seen set
flush_current_unchecked(t, s, title, level, pnum) ==
    IF title # <<>> /\ level # None
    THEN [toc |-> Append(t, <<level[1], title, pnum>>),
          seen |-> s \cup {<<pnum, level[1], title>>}]
    ELSE [toc |-> t, seen |-> s]

\* variant: commits the pending title in front of the earlier entries
flush_current_front(t, s, title, level, pnum) ==
    IF title # <<>> /\ level # None /\ <<pnum, level[1], title>> \notin s
    THEN [toc |-> << <<level[1], title, pnum>> >> \o t,
          seen |-> s \cup {<<pnum, level[1], title>>}]
    ELSE [toc |-> t, seen |-> s]

\* variant: the seen key leaves out the page number
flush_current_pageless(t, s, title, level, pnum) ==
    IF title # <<>> /\ level # None /\ <<0, level[1], title>> \notin s
    THEN [toc |-> Append(t, <<level[1], title, pnum>>),
          seen |-> s \cup {<<0, level[1], title>>}]
    ELSE [toc |-> t, seen |-> s]

\* flush_current(): the toc and the seen set it leaves
flush_current(t, s, title, level, pnum) ==
    IF title # <<>> /\ level # None /\ <<pnum, level[1], title>> \notin s
    THEN [toc |-> Append(t, <<level[1], title, pnum>>),
          seen |-> s \cup {<<pnum, level[1], title>>}]
    ELSE [toc |-> t, seen |-> s]

\* the level of the per-page fallback entry
fallback_level(hsizes, best_size) ==
    IF size_level(hsizes, round05(best_size)) # None
    THEN size_level(hsizes, round05(best_size))[1]
    ELSE IF hsizes # <<>> THEN Len(hsizes) ELSE 1

\* variant: the fallback entry is added whether or not it was asked for
page_fallback_forced(t, s, force, had_heading, best_text, best_size, hsizes, pnum) ==
    IF ~had_heading /\ best_text # <<>> /\ best_size > 0
       /\ <<pnum, fallback_level(hsizes, best_size), best_text>> \notin s
    THEN [toc |-> Append(t, <<fallback_level(hsizes, best_size), best_text, pnum>>),
          seen |-> s \cup {<<pnum, fallback_level(hsizes, best_size), best_text>>}]
    ELSE [toc |-> t, seen |-> s]

\* variant: the seen key of the fallback entry leaves out the page number
page_fallback_pageless(t, s, force, had_heading, best_text, best_size, hsizes, pnum) ==
    IF force /\ ~had_heading /\ best_text # <<>> /\ best_size > 0
       /\ <<0, fallback_level(hsizes, best_size), best_text>> \notin s
    THEN [toc |-> Append(t, <<fallback_level(hsizes, best_size), best_text, pnum>>),
          seen |-> s \cup {<<0, fallback_level(hsizes, best_size), best_text>>}]
    ELSE [toc |-> t, seen |-> s]

\* the per-page fallback: the toc and the seen set it leaves
page_fallback(t, s, force, had_heading, best_text, best_size, hsizes, pnum) ==
    IF force /\ ~had_heading /\ best_text # <<>> /\ best_size > 0
       /\ <<pnum, fallback_level(hsizes, best_size), best_text>> \notin s
    THEN [toc |-> Append(t, <<fallback_level(hsizes, best_size), best_text, pnum>>),
          seen |-> s \cup {<<pnum, fallback_level(hsizes, best_size), best_text>>}]
    ELSE [toc |-> t, seen |-> s]

----------------------------------------------------------------------------
(* The documents explored.  Sizes: 200 = 10pt, 220 = 11pt, 360 = 18pt,      *)
(* 376 = 18.8pt (rounds to 19pt), 400 = 20pt.                              *)

Span(t, sz, c) == [text |-> t, size |-> sz, color |-> c]

LineKinds ==
    { <<>>,                                                  \* no spans
      << Span(<<"1">>, 400, "black") >>,                     \* no letter
      << Span(<<"B">>, 200, "black"), Span(<<"B">>, 200, "black") >>,
      << Span(<<"A">>, 220, "red") >>,
      << Span(<<"B">>, 360, "red") >>,
      << Span(<<"B">>, 376, "black") >>,
      << Span(<<"A">>, 400, "black") >> }

\* the first line in a block of its own, then an image block (no lines),
\* then the other lines in one block
BlocksOf(ls) ==
    IF ls = <<>> THEN <<>>
    ELSE IF Len(ls) = 1 THEN <<ls>>
    ELSE << <<ls[1]>>, <<>>, Tail(ls) >>

Monotone(f, n) == \A i \in 1..n : \A j \in 1..n : i <= j => f[i] <= f[j]

LinesOnPage(ls, f, p) ==
    LET idx == {i \in 1..Len(ls) : f[i] = p}
    IN  IF idx = {} THEN <<>> ELSE SubSeq(ls, SetMin(idx), SetMax(idx))

\* the document of np pages with the lines ls, line i on page f[i]; the
\* pages p with okf[p] false fail to extract
MakeDoc(np, ls, f, okf) ==
    [p \in 1..np |-> [ok |-> okf[p], blocks |-> BlocksOf(LinesOnPage(ls, f, p))]]

FontThresholds == {280}            \* 14pt, the default
MaxLevelsArgs  == {0, 1, 2, 3}

\* A second family of documents: a line of three 10pt spans and one 18pt
\* span, with which three sizes can lie above the threshold, and a line whose
\* only span has a letter and the size 0.
WideKinds ==
    { <<>>,
      << Span(<<"1">>, 400, "black") >>,
      << Span(<<"B">>, 200, "black"), Span(<<"B">>, 200, "black") >>,
      << Span(<<"A">>, 220, "red") >>,
      << Span(<<"B">>, 200, "black"), Span(<<"B">>, 200, "black"),
         Span(<<"B">>, 200, "black"), Span(<<"A">>, 360, "black") >>,
      << Span(<<"B">>, 376, "black") >>,
      << Span(<<"A">>, 400, "black") >>,
      << Span(<<"A">>, 0, "black") >> }

MaxLevelsWide == {-1, 0, 1, 2, 3}

----------------------------------------------------------------------------
(* PDFBookmarkModel *)

FrameInit ==
    /\ font_threshold = 0 /\ max_levels = 0 /\ force_page_heading = FALSE
    /\ body_size = 0 /\ heading_sizes = <<>> /\ body_color_key = None
    /\ toc = <<>> /\ seen = {}
    /\ page_num = 0 /\ line_idx = 0
    /\ page_best_size = 0 /\ page_best_text = <<>> /\ page_best_color = None
    /\ page_had_heading = FALSE
    /\ current_title = <<>> /\ current_level = None

ModelInit ==
    /\ doc = None /\ self_toc = <<>> /\ generated = FALSE /\ modified = FALSE
    /\ returns = <<>>
    /\ pc = "idle"
    /\ FrameInit

pageVars  == <<page_best_size, page_best_text, page_best_color, page_had_heading,
               current_title, current_level>>
argVars   == <<font_threshold, max_levels, force_page_heading>>
profVars  == <<body_size, heading_sizes, body_color_key>>
fieldVars == <<doc, self_toc, generated, modified, returns>>

\* set_document(doc, pdf_path); the documents explored carry no outline.
\* Attaching a document over another one reaches no state that attaching it
\* to the fresh model does not reach, so only the first attachment is explored.
set_document(d) ==
    /\ pc = "idle" /\ doc = None
    /\ doc' = Some(d)
    /\ self_toc' = <<>>
    /\ generated' = FALSE
    /\ modified' = FALSE
    /\ UNCHANGED <<returns, pc, argVars, profVars, toc, seen, page_num, line_idx,
                   pageVars>>

\* the record of a call that returns with the outline t in self.toc
Returned(ft, ml, force, t, n) ==
    [font_threshold |-> ft, max_levels |-> ml, force_page_heading |-> force,
     toc |-> t, ret |-> n]

\* the locals of a new call are unbound until the call assigns them
FreshLocals ==
    /\ line_idx' = 0
    /\ page_best_size' = 0 /\ page_best_text' = <<>> /\ page_best_color' = None
    /\ page_had_heading' = FALSE
    /\ current_title' = <<>> /\ current_level' = None

\* auto_generate_toc(...) on a document without usable text: early return 0
GenerateNoText(ft, ml, force) ==
    /\ pc \in {"idle", "done"} /\ doc # None
    /\ collect_sizes(doc[1]) = <<>>
    /\ font_threshold' = ft /\ max_levels' = ml /\ force_page_heading' = force
    /\ self_toc' = <<>> /\ generated' = TRUE /\ modified' = TRUE
    /\ returns' = Append(returns, Returned(ft, ml, force, <<>>, 0))
    /\ body_size' = 0 /\ heading_sizes' = <<>> /\ body_color_key' = None
    /\ toc' = <<>> /\ seen' = {} /\ page_num' = 0
    /\ FreshLocals
    /\ pc' = "done"
    /\ UNCHANGED doc

\* variant: the seen set of the call before is kept
GenerateProfile_seen_kept(ft, ml, force) ==
    /\ pc \in {"idle", "done"} /\ doc # None
    /\ collect_sizes(doc[1]) # <<>>
    /\ font_threshold' = ft /\ max_levels' = ml /\ force_page_heading' = force
    /\ body_size' = median(collect_sizes(doc[1]))
    /\ heading_sizes' = compute_heading_sizes(collect_sizes(doc[1]),
                            median(collect_sizes(doc[1])), ft, ml)
    /\ body_color_key' = compute_body_color(doc[1], median(collect_sizes(doc[1])))
    /\ toc' = <<>> /\ seen' = seen
    /\ page_num' = 1
    /\ FreshLocals
    /\ pc' = "page"
    /\ UNCHANGED fieldVars

\* auto_generate_toc(...): passes 1 and 1b, up to the start of pass 2
GenerateProfile(ft, ml, force) ==
    /\ pc \in {"idle", "done"} /\ doc # None
    /\ collect_sizes(doc[1]) # <<>>
    /\ font_threshold' = ft /\ max_levels' = ml /\ force_page_heading' = force
    /\ body_size' = median(collect_sizes(doc[1]))
    /\ heading_sizes' = compute_heading_sizes(collect_sizes(doc[1]),
                            median(collect_sizes(doc[1])), ft, ml)
    /\ body_color_key' = compute_body_color(doc[1], median(collect_sizes(doc[1])))
    /\ toc' = <<>> /\ seen' = {}
    /\ page_num' = 1
    /\ FreshLocals
    /\ pc' = "page"
    /\ UNCHANGED fieldVars

CurPage  == doc[1][page_num]
CurLines == PageLines(CurPage)
CurLine  == CurLines[line_idx]

\* variant: the failure of a page ends the scan
SkipFailedPage_abort ==
    /\ pc = "page" /\ page_num <= Len(doc[1])
    /\ ~CurPage.ok
    /\ page_num' = Len(doc[1]) + 1
    /\ UNCHANGED <<fieldVars, pc, argVars, profVars, toc, seen, line_idx, pageVars>>

\* pass 2, a page whose get_text raises: continue
SkipFailedPage ==
    /\ pc = "page" /\ page_num <= Len(doc[1])
    /\ ~CurPage.ok
    /\ page_num' = page_num + 1
    /\ UNCHANGED <<fieldVars, pc, argVars, profVars, toc, seen, line_idx, pageVars>>

\* pass 2, start of a page: the per-page locals
BeginPage ==
    /\ pc = "page" /\ page_num <= Len(doc[1])
    /\ CurPage.ok
    /\ page_best_size' = 0 /\ page_best_text' = <<>> /\ page_best_color' = None
    /\ page_had_heading' = FALSE
    /\ current_title' = <<>> /\ current_level' = None
    /\ line_idx' = 1
    /\ pc' = "line"
    /\ UNCHANGED <<fieldVars, argVars, profVars, toc, seen, page_num>>

\* a line without spans: continue
SkipEmptyLine ==
    /\ pc = "line" /\ line_idx <= Len(CurLines)
    /\ CurLine = <<>>
    /\ line_idx' = line_idx + 1
    /\ UNCHANGED <<fieldVars, pc, argVars, profVars, toc, seen, page_num, pageVars>>

\* a blank / non-text line: flush_current(); continue
BlankLine ==
    /\ pc = "line" /\ line_idx <= Len(CurLines)
    /\ CurLine # <<>> /\ is_blank(CurLine)
    /\ toc'  = flush_current(toc, seen, current_title, current_level, page_num).toc
    /\ seen' = flush_current(toc, seen, current_title, current_level, page_num).seen
    /\ current_title' = <<>> /\ current_level' = None
    /\ line_idx' = line_idx + 1
    /\ UNCHANGED <<fieldVars, pc, argVars, profVars, page_num, page_best_size,
                   page_best_text, page_best_color, page_had_heading>>

\* the fallback candidate after a non-blank line
TrackBest ==
    IF line_max_size(CurLine) > page_best_size
    THEN /\ page_best_size' = line_max_size(CurLine)
         /\ page_best_text' = line_text(CurLine)
         /\ page_best_color' = line_color_key(CurLine)
    ELSE UNCHANGED <<page_best_size, page_best_text, page_best_color>>

CurLevel == line_heading_level(heading_sizes, body_size, body_color_key, CurLine)

\* a text line that is no heading: flush_current(); continue
NonHeadingLine ==
    /\ pc = "line" /\ line_idx <= Len(CurLines)
    /\ CurLine # <<>> /\ ~is_blank(CurLine)
    /\ CurLevel = None
    /\ TrackBest
    /\ toc'  = flush_current(toc, seen, current_title, current_level, page_num).toc
    /\ seen' = flush_current(toc, seen, current_title, current_level, page_num).seen
    /\ current_title' = <<>> /\ current_level' = None
    /\ line_idx' = line_idx + 1
    /\ UNCHANGED <<fieldVars, pc, argVars, profVars, page_num, page_had_heading>>

\* variant: a continuation line replaces the pending title
merge_title_replaced(title, level, txt, lvl) == txt

\* the pending title after a heading line of text txt at level lvl
merge_title(title, level, txt, lvl) ==
    IF title # <<>> /\ level = lvl THEN title \o <<" ">> \o txt ELSE txt

\* variant: a heading line does not mark the page as having a heading
HeadingLine_unmarked ==
    /\ pc = "line" /\ line_idx <= Len(CurLines)
    /\ CurLine # <<>> /\ ~is_blank(CurLine)
    /\ CurLevel # None
    /\ TrackBest
    /\ IF current_title # <<>> /\ current_level = CurLevel
       THEN UNCHANGED <<toc, seen>>
       ELSE /\ toc'  = flush_current(toc, seen, current_title, current_level, page_num).toc
            /\ seen' = flush_current(toc, seen, current_title, current_level, page_num).seen
    /\ current_title' = merge_title(current_title, current_level, line_text(CurLine), CurLevel)
    /\ current_level' = CurLevel
    /\ line_idx' = line_idx + 1
    /\ UNCHANGED <<fieldVars, pc, argVars, profVars, page_num, page_had_heading>>

\* a heading line: merge into the pending run, or flush and start a new one
HeadingLine ==
    /\ pc = "line" /\ line_idx <= Len(CurLines)
    /\ CurLine # <<>> /\ ~is_blank(CurLine)
    /\ CurLevel # None
    /\ TrackBest
    /\ page_had_heading' = TRUE
    /\ IF current_title # <<>> /\ current_level = CurLevel
       THEN UNCHANGED <<toc, seen>>
       ELSE /\ toc'  = flush_current(toc, seen, current_title, current_level, page_num).toc
            /\ seen' = flush_current(toc, seen, current_title, current_level, page_num).seen
    /\ current_title' = merge_title(current_title, current_level, line_text(CurLine), CurLevel)
    /\ current_level' = CurLevel
    /\ line_idx' = line_idx + 1
    /\ UNCHANGED <<fieldVars, pc, argVars, profVars, page_num>>

\* end of page: flush_current(), then the per-page fallback
EndPage ==
    /\ pc = "line" /\ line_idx > Len(CurLines)
    /\ LET fl == flush_current(toc, seen, current_title, current_level, page_num)
           fb == page_fallback(fl.toc, fl.seen, force_page_heading, page_had_heading,
                               page_best_text, page_best_size, heading_sizes, page_num)
       IN  toc' = fb.toc /\ seen' = fb.seen
    /\ current_title' = <<>> /\ current_level' = None
    /\ page_num' = page_num + 1
    /\ pc' = "page"
    /\ UNCHANGED <<fieldVars, argVars, profVars, line_idx, page_best_size,
                   page_best_text, page_best_color, page_had_heading>>

\* after the last page: self.toc = toc; generated = modified = True; return
Finish ==
    /\ pc = "page" /\ page_num > Len(doc[1])
    /\ self_toc' = toc /\ generated' = TRUE /\ modified' = TRUE
    /\ returns' = Append(returns, Returned(font_threshold, max_levels,
                                           force_page_heading, toc, Len(toc)))
    /\ pc' = "done"
    /\ UNCHANGED <<doc, argVars, profVars, toc, seen, page_num, line_idx, pageVars>>

\* a new database, no folder scanned or loaded
AppIdle ==
    /\ now = 0
    /\ pdf_metadata = [f \in Files |-> None]
    /\ root_history = <<>>
    /\ current_plan = None /\ current_root = None
    /\ result = [op |-> "none"]
    /\ toggles = [f \in Files |-> 0]
    /\ recent = <<>>
    /\ pdf_path = None /\ doc_toc = None /\ calls = <<>>

TreeIdle ==
    /\ tpc = "idle" /\ toc_raw = <<>> /\ item_idx = 0
    /\ nodes = <<>> /\ toc_tree = <<>> /\ stack = <<>>
    /\ rpc = "idle" /\ r_raw = <<>> /\ r_idx = 0
    /\ r_nodes = <<>> /\ r_tree = <<>> /\ r_stack = <<>>

InitToc == ModelInit /\ TreeIdle /\ AppIdle

\* the calls, with their arguments drawn from the explored sets: a document
\* of up to MaxPages pages and MaxLines lines, each line on one page, the
\* lines in page order; a page whose extraction fails shows no lines
SetDocument ==
    /\ pc = "idle" /\ doc = None
    /\ \E np \in 0..MaxPages : \E n \in 0..MaxLines :
       \E ls \in [1..n -> LineKinds] : \E f \in [1..n -> 1..np] :
       \E okf \in [1..np -> BOOLEAN] :
           /\ Monotone(f, n)
           /\ \A p \in 1..np : ~okf[p] => LinesOnPage(ls, f, p) = <<>>
           /\ set_document(MakeDoc(np, ls, f, okf))

CallNoText ==
    /\ pc = "idle" /\ doc # None
    /\ \E ft \in FontThresholds, ml \in MaxLevelsArgs, force \in BOOLEAN :
           GenerateNoText(ft, ml, force)

CallProfile ==
    /\ pc = "idle" /\ doc # None
    /\ \E ft \in FontThresholds, ml \in MaxLevelsArgs, force \in BOOLEAN :
           GenerateProfile(ft, ml, force)

\* the calls on the second family of documents, max_levels negative too; a
\* page whose extraction fails may hold lines, which the code never sees
SetDocumentWide ==
    /\ pc = "idle" /\ doc = None
    /\ \E np \in 0..MaxPages : \E n \in 0..MaxLines :
       \E ls \in [1..n -> WideKinds] : \E f \in [1..n -> 1..np] :
       \E okf \in [1..np -> BOOLEAN] :
           /\ Monotone(f, n)
           /\ set_document(MakeDoc(np, ls, f, okf))

CallNoTextWide ==
    /\ pc = "idle" /\ doc # None
    /\ \E ft \in FontThresholds, ml \in MaxLevelsWide, force \in BOOLEAN :
           GenerateNoText(ft, ml, force)

CallProfileWide ==
    /\ pc = "idle" /\ doc # None
    /\ \E ft \in FontThresholds, ml \in MaxLevelsWide, force \in BOOLEAN :
           GenerateProfile(ft, ml, force)

NextToc ==
    \/ SetDocument /\ UNCHANGED <<treeVars, appVars, lifeVars>>
    \/ CallNoText /\ UNCHANGED <<treeVars, appVars, lifeVars>>
    \/ CallProfile /\ UNCHANGED <<treeVars, appVars, lifeVars>>
    \/ SkipFailedPage /\ UNCHANGED <<treeVars, appVars, lifeVars>>
    \/ BeginPage /\ UNCHANGED <<treeVars, appVars, lifeVars>>
    \/ SkipEmptyLine /\ UNCHANGED <<treeVars, appVars, lifeVars>>
    \/ BlankLine /\ UNCHANGED <<treeVars, appVars, lifeVars>>
    \/ NonHeadingLine /\ UNCHANGED <<treeVars, appVars, lifeVars>>
    \/ HeadingLine /\ UNCHANGED <<treeVars, appVars, lifeVars>>
    \/ EndPage /\ UNCHANGED <<treeVars, appVars, lifeVars>>
    \/ Finish /\ UNCHANGED <<treeVars, appVars, lifeVars>>

SpecToc == InitToc /\ [][NextToc]_vars

\* calls one after the other on the attached document, up to MaxCalls of them
RepeatLevels == {1, 2}

CallNoTextRepeat ==
    /\ pc \in {"idle", "done"} /\ doc # None /\ Len(returns) < MaxCalls
    /\ \E ft \in FontThresholds, ml \in RepeatLevels :
           GenerateNoText(ft, ml, TRUE)

CallProfileRepeat ==
    /\ pc \in {"idle", "done"} /\ doc # None /\ Len(returns) < MaxCalls
    /\ \E ft \in FontThresholds, ml \in RepeatLevels :
           GenerateProfile(ft, ml, TRUE)

NextRepeat ==
    \/ SetDocument /\ UNCHANGED <<treeVars, appVars, lifeVars>>
    \/ CallNoTextRepeat /\ UNCHANGED <<treeVars, appVars, lifeVars>>
    \/ CallProfileRepeat /\ UNCHANGED <<treeVars, appVars, lifeVars>>
    \/ SkipFailedPage /\ UNCHANGED <<treeVars, appVars, lifeVars>>
    \/ BeginPage /\ UNCHANGED <<treeVars, appVars, lifeVars>>
    \/ SkipEmptyLine /\ UNCHANGED <<treeVars, appVars, lifeVars>>
    \/ BlankLine /\ UNCHANGED <<treeVars, appVars, lifeVars>>
    \/ NonHeadingLine /\ UNCHANGED <<treeVars, appVars, lifeVars>>
    \/ HeadingLine /\ UNCHANGED <<treeVars, appVars, lifeVars>>
    \/ EndPage /\ UNCHANGED <<treeVars, appVars, lifeVars>>
    \/ Finish /\ UNCHANGED <<treeVars, appVars, lifeVars>>

SpecRepeat == InitToc /\ [][NextRepeat]_vars

NextWide ==
    \/ SetDocumentWide /\ UNCHANGED <<treeVars, appVars, lifeVars>>
    \/ CallNoTextWide /\ UNCHANGED <<treeVars, appVars, lifeVars>>
    \/ CallProfileWide /\ UNCHANGED <<treeVars, appVars, lifeVars>>
    \/ SkipFailedPage /\ UNCHANGED <<treeVars, appVars, lifeVars>>
    \/ BeginPage /\ UNCHANGED <<treeVars, appVars, lifeVars>>
    \/ SkipEmptyLine /\ UNCHANGED <<treeVars, appVars, lifeVars>>
    \/ BlankLine /\ UNCHANGED <<treeVars, appVars, lifeVars>>
    \/ NonHeadingLine /\ UNCHANGED <<treeVars, appVars, lifeVars>>
    \/ HeadingLine /\ UNCHANGED <<treeVars, appVars, lifeVars>>
    \/ EndPage /\ UNCHANGED <<treeVars, appVars, lifeVars>>
    \/ Finish /\ UNCHANGED <<treeVars, appVars, lifeVars>>

SpecWide == InitToc /\ [][NextWide]_vars

----------------------------------------------------------------------------
(* PDFEngine.extract_toc: the flat-to-nested reconstruction.  An item of   *)
(* toc_raw is [lvl, title, page, dest]; dest is None when the item has no  *)
(* fourth field, else the fourth field: empty (falsy) or not, a dict or    *)
(* not, with the entry 'to' (<<point>>) or without it (<<>>); a point has  *)
(* the coordinate x and has the attribute y (<<y>>) or lacks it (<<>>).    *)
(* A node is a record; the children list and the stack hold node           *)
(* identities, which are the indices of the items.                         *)

Item(l, t, p, d) == [lvl |-> l, title |-> t, page |-> p, dest |-> d]

ItemLevels == 1..3
Dest(e, d, t) == Some([empty |-> e, isdict |-> d, to |-> t])
Point(px, py) == [x |-> px, y |-> py]

NoDest    == None                                           \* three fields
EmptyDict == Dest(TRUE, TRUE, None)                         \* {}
NonDict   == Dest(FALSE, FALSE, None)                       \* e.g. a string
DictNoTo  == Dest(FALSE, TRUE, None)                        \* {'kind': 1}
DictToNoY == Dest(FALSE, TRUE, Some(Point(3, None)))        \* 'to' without .y
DictToY   == Dest(FALSE, TRUE, Some(Point(3, Some(7))))     \* 'to' = Point(3, 7)

ItemDests == {NoDest, EmptyDict, NonDict, DictNoTo, DictToNoY, DictToY}

\* the title, page and destination of the explored items: both titles, both
\* pages and every form of destination occur
ItemBodies ==
    { <<<<"A">>, 1, NoDest>>,   <<<<"B">>, 2, DictToY>>,
      <<<<"A">>, 2, EmptyDict>>, <<<<"B">>, 1, NonDict>>,
      <<<<"A">>, 1, DictNoTo>>, <<<<"B">>, 2, DictToNoY>> }

Items == {Item(l, b[1], b[2], b[3]) : l \in ItemLevels, b \in ItemBodies}

\* variant: reads the horizontal coordinate
extract_y_x(dest) ==
    IF dest # None /\ ~dest[1].empty /\ dest[1].isdict /\ dest[1].to # None
    THEN dest[1].to[1].x
    ELSE 0

\* dest_y = 0; if dest and isinstance(dest, dict) and 'to' in dest:
\*     try: dest_y = dest['to'].y   except: pass
extract_y(dest) ==
    IF dest # None /\ ~dest[1].empty /\ dest[1].isdict /\ dest[1].to # None
    THEN (IF dest[1].to[1].y # None THEN dest[1].to[1].y[1] ELSE 0)
    ELSE 0

make_node(item) ==
    [title |-> item.title, page |-> item.page, dest_y |-> extract_y(item.dest),
     children |-> <<>>, user_note |-> <<>>]

\* variant: pops only the strictly deeper entries (>, not >=)
RECURSIVE pop_stack_strict(_, _)
pop_stack_strict(st, lvl) ==
    IF st # <<>> /\ st[Len(st)].level > lvl
    THEN pop_stack_strict(SubSeq(st, 1, Len(st) - 1), lvl)
    ELSE st

\* variant: nothing is popped
pop_stack_kept(st, lvl) == st

\* while stack and stack[-1][0] >= lvl: stack.pop()
RECURSIVE pop_stack(_, _)
pop_stack(st, lvl) ==
    IF st # <<>> /\ st[Len(st)].level >= lvl
    THEN pop_stack(SubSeq(st, 1, Len(st) - 1), lvl)
    ELSE st

\* variant: the new child is put in front of its siblings
add_child_front(ns, parent, child) ==
    [ns EXCEPT ![parent].children = <<child>> \o @]

\* parent_node["children"].append(node)
add_child(ns, parent, child) ==
    [ns EXCEPT ![parent].children = Append(@, child)]

\* variant: an item without a valid ancestor is dropped
append_orphan_dropped(tree, node) == tree

\* variant: an item without a valid ancestor becomes the first root
append_orphan_front(tree, node) == <<node>> \o tree

\* toc_tree.append(node) when the popped stack is empty
append_orphan(tree, node) == Append(tree, node)

CurItem == toc_raw[item_idx]

\* extract_toc(file_path) of an existing PDF file: toc_raw is read
ExtractToc ==
    /\ tpc = "idle"
    /\ \E n \in 0..MaxItems : \E raw \in [1..n -> Items] : toc_raw' = raw
    /\ item_idx' = 1
    /\ nodes' = <<>> /\ toc_tree' = <<>> /\ stack' = <<>>
    /\ tpc' = "loop"
    /\ UNCHANGED <<tocVars, rVars, appVars, lifeVars>>

\* an item with lvl == 1
RootItem ==
    /\ tpc = "loop" /\ item_idx <= Len(toc_raw)
    /\ CurItem.lvl = 1
    /\ nodes' = Append(nodes, make_node(CurItem))
    /\ toc_tree' = Append(toc_tree, item_idx)
    /\ stack' = << [level |-> 1, node |-> item_idx] >>
    /\ item_idx' = item_idx + 1
    /\ UNCHANGED <<tpc, toc_raw, tocVars, rVars, appVars, lifeVars>>

\* an item with lvl != 1 for which the popped stack holds a parent
ChildItem ==
    /\ tpc = "loop" /\ item_idx <= Len(toc_raw)
    /\ CurItem.lvl # 1
    /\ pop_stack(stack, CurItem.lvl) # <<>>
    /\ LET st == pop_stack(stack, CurItem.lvl)
       IN  /\ nodes' = Append(add_child(nodes, st[Len(st)].node, item_idx),
                              make_node(CurItem))
           /\ stack' = Append(st, [level |-> CurItem.lvl, node |-> item_idx])
    /\ item_idx' = item_idx + 1
    /\ UNCHANGED <<tpc, toc_raw, toc_tree, tocVars, rVars, appVars, lifeVars>>

\* an item with lvl != 1 for which the popped stack is empty: a new root
OrphanItem ==
    /\ tpc = "loop" /\ item_idx <= Len(toc_raw)
    /\ CurItem.lvl # 1
    /\ pop_stack(stack, CurItem.lvl) = <<>>
    /\ nodes' = Append(nodes, make_node(CurItem))
    /\ toc_tree' = append_orphan(toc_tree, item_idx)
    /\ stack' = << [level |-> CurItem.lvl, node |-> item_idx] >>
    /\ item_idx' = item_idx + 1
    /\ UNCHANGED <<tpc, toc_raw, tocVars, rVars, appVars, lifeVars>>

\* return toc_tree
ReturnTree ==
    /\ tpc = "loop" /\ item_idx > Len(toc_raw)
    /\ tpc' = "done"
    /\ UNCHANGED <<toc_raw, item_idx, nodes, toc_tree, stack, tocVars, rVars, appVars, lifeVars>>

----------------------------------------------------------------------------
(* PDFRenderer.get_toc: the same file read with doc.get_toc(), whose items  *)
(* are [lvl, title, page] without a destination, and rebuilt by the         *)
(* renderer's own loop.  A node has no dest_y.                              *)

\* the items doc.get_toc() gives for the file whose full outline is raw
simple_toc(raw) ==
    [i \in 1..Len(raw) |-> [lvl |-> raw[i].lvl, title |-> raw[i].title,
                            page |-> raw[i].page]]

get_toc_node(item) ==
    [title |-> item.title, page |-> item.page, children |-> <<>>, user_note |-> <<>>]

\* variant: pops only the strictly deeper entries (>, not >=)
RECURSIVE get_toc_pop_strict(_, _)
get_toc_pop_strict(st, lvl) ==
    IF st # <<>> /\ st[Len(st)].level > lvl
    THEN get_toc_pop_strict(SubSeq(st, 1, Len(st) - 1), lvl)
    ELSE st

\* while stack and stack[-1][0] >= lvl: stack.pop()
RECURSIVE get_toc_pop(_, _)
get_toc_pop(st, lvl) ==
    IF st # <<>> /\ st[Len(st)].level >= lvl
    THEN get_toc_pop(SubSeq(st, 1, Len(st) - 1), lvl)
    ELSE st

\* parent_node["children"].append(node)
get_toc_add_child(ns, parent, child) ==
    [ns EXCEPT ![parent].children = Append(@, child)]

RItem == r_raw[r_idx]

\* get_toc(file_path) of the file extract_toc has read
GetToc ==
    /\ tpc = "done" /\ rpc = "idle"
    /\ r_raw' = simple_toc(toc_raw)
    /\ r_idx' = 1
    /\ r_nodes' = <<>> /\ r_tree' = <<>> /\ r_stack' = <<>>
    /\ rpc' = "loop"
    /\ UNCHANGED <<tpc, toc_raw, item_idx, nodes, toc_tree, stack, tocVars, appVars, lifeVars>>

\* an item with lvl == 1
GetTocRoot ==
    /\ rpc = "loop" /\ r_idx <= Len(r_raw)
    /\ RItem.lvl = 1
    /\ r_nodes' = Append(r_nodes, get_toc_node(RItem))
    /\ r_tree' = Append(r_tree, r_idx)
    /\ r_stack' = << [level |-> 1, node |-> r_idx] >>
    /\ r_idx' = r_idx + 1
    /\ UNCHANGED <<rpc, r_raw, tpc, toc_raw, item_idx, nodes, toc_tree, stack, tocVars, appVars, lifeVars>>

\* an item with lvl != 1 for which the popped stack holds a parent
GetTocChild ==
    /\ rpc = "loop" /\ r_idx <= Len(r_raw)
    /\ RItem.lvl # 1
    /\ get_toc_pop(r_stack, RItem.lvl) # <<>>
    /\ LET st == get_toc_pop(r_stack, RItem.lvl)
       IN  /\ r_nodes' = Append(get_toc_add_child(r_nodes, st[Len(st)].node, r_idx),
                                get_toc_node(RItem))
           /\ r_stack' = Append(st, [level |-> RItem.lvl, node |-> r_idx])
    /\ r_idx' = r_idx + 1
    /\ UNCHANGED <<rpc, r_raw, r_tree, tpc, toc_raw, item_idx, nodes, toc_tree, stack,
                   tocVars, appVars, lifeVars>>

\* an item with lvl != 1 for which the popped stack is empty: a new root
GetTocOrphan ==
    /\ rpc = "loop" /\ r_idx <= Len(r_raw)
    /\ RItem.lvl # 1
    /\ get_toc_pop(r_stack, RItem.lvl) = <<>>
    /\ r_nodes' = Append(r_nodes, get_toc_node(RItem))
    /\ r_tree' = Append(r_tree, r_idx)
    /\ r_stack' = << [level |-> RItem.lvl, node |-> r_idx] >>
    /\ r_idx' = r_idx + 1
    /\ UNCHANGED <<rpc, r_raw, tpc, toc_raw, item_idx, nodes, toc_tree, stack, tocVars, appVars, lifeVars>>

\* return toc_tree
GetTocReturn ==
    /\ rpc = "loop" /\ r_idx > Len(r_raw)
    /\ rpc' = "done"
    /\ UNCHANGED <<r_raw, r_idx, r_nodes, r_tree, r_stack, tpc, toc_raw, item_idx,
                   nodes, toc_tree, stack, tocVars, appVars, lifeVars>>

InitTree == ModelInit /\ TreeIdle /\ AppIdle

NextTree ==
    \/ ExtractToc
    \/ RootItem
    \/ ChildItem
    \/ OrphanItem
    \/ ReturnTree
    \/ GetToc
    \/ GetTocRoot
    \/ GetTocChild
    \/ GetTocOrphan
    \/ GetTocReturn

SpecTree == InitTree /\ [][NextTree]_vars

\* extract_toc on outlines of any levels, 0 included, which no well-formed
\* outline holds
AnyLevels == 0..3
AnyItems == {Item(l, b[1], b[2], b[3]) :
                l \in AnyLevels, b \in {<<<<"A">>, 1, NoDest>>, <<<<"B">>, 2, DictToY>>}}

ExtractTocAny ==
    /\ tpc = "idle"
    /\ \E n \in 0..MaxItems : \E raw \in [1..n -> AnyItems] : toc_raw' = raw
    /\ item_idx' = 1
    /\ nodes' = <<>> /\ toc_tree' = <<>> /\ stack' = <<>>
    /\ tpc' = "loop"
    /\ UNCHANGED <<tocVars, rVars, appVars, lifeVars>>

NextTreeAny ==
    \/ ExtractTocAny
    \/ RootItem
    \/ ChildItem
    \/ OrphanItem
    \/ ReturnTree

SpecTreeAny == InitTree /\ [][NextTreeAny]_vars

----------------------------------------------------------------------------
(* The application: the metadata store, the scan and the ToC actions.      *)
(* The scanned folder holds the files Files, which exist throughout; a     *)
(* text stored in the database is a sequence of strings, '' is <<>>.       *)

Root == "root"

\* the outline embedded in a file: doc.get_toc(simple=False)
EmbeddedToc(f) ==
    IF f = "dummy_with_toc.pdf"
    THEN << Item(1, <<"A">>, 1, NoDest), Item(2, <<"B">>, 2, DictToY) >>
    ELSE <<>>

\* PDFEngine.has_toc(file_path) of an existing .pdf file
has_toc(f) == Len(simple_toc(EmbeddedToc(f))) > 0

\* the loop of PDFRenderer.get_toc from item i on
RECURSIVE get_toc_loop(_, _, _, _, _)
get_toc_loop(raw, i, ns, tree, st) ==
    IF i > Len(raw) THEN [nodes |-> ns, tree |-> tree]
    ELSE IF raw[i].lvl = 1
    THEN get_toc_loop(raw, i + 1, Append(ns, get_toc_node(raw[i])), Append(tree, i),
                      << [level |-> 1, node |-> i] >>)
    ELSE LET p == get_toc_pop(st, raw[i].lvl)
         IN  IF p # <<>>
             THEN get_toc_loop(raw, i + 1,
                               Append(get_toc_add_child(ns, p[Len(p)].node, i),
                                      get_toc_node(raw[i])),
                               tree, Append(p, [level |-> raw[i].lvl, node |-> i]))
             ELSE get_toc_loop(raw, i + 1, Append(ns, get_toc_node(raw[i])),
                               Append(tree, i),
                               << [level |-> raw[i].lvl, node |-> i] >>)

\* PDFRenderer.get_toc(file_path)
get_toc(f) == get_toc_loop(simple_toc(EmbeddedToc(f)), 1, <<>>, <<>>, <<>>)

\* json.dumps of a list of nodes: the text, piece by piece
RECURSIVE dumps_node(_, _)
RECURSIVE dumps_items(_, _)
dumps_list(ns, idxs) == <<"[">> \o dumps_items(ns, idxs) \o <<"]">>
dumps_items(ns, idxs) ==
    IF idxs = <<>> THEN <<>>
    ELSE IF Len(idxs) = 1 THEN dumps_node(ns, idxs[1])
    ELSE dumps_node(ns, idxs[1]) \o <<", ">> \o dumps_items(ns, Tail(idxs))
dumps_node(ns, i) ==
    <<"{", "\"title\": ", "\"">> \o ns[i].title \o <<"\"">>
    \o <<", \"page\": ", ToString(ns[i].page), ", \"children\": ">>
    \o dumps_list(ns, ns[i].children)
    \o <<", \"user_note\": ", "\"\"", "}">>

json_dumps(forest) == dumps_list(forest.nodes, forest.tree)

\* bool(text)
truthy(text) == text # <<>>

\* ---- Storage: table pdf_metadata ----

Row(t, n, b, i, m) ==
    [tags |-> t, notes |-> n, bookmarks |-> b, is_bookmarked |-> i, last_modified |-> m]

\* get_pdf_metadata(file_path): is_bookmarked is stored as an integer and
\* read with bool()
get_pdf_metadata(db, f) ==
    IF db[f] # None
    THEN [tags |-> db[f][1].tags, notes |-> db[f][1].notes,
          bookmarks |-> db[f][1].bookmarks,
          is_bookmarked |-> (db[f][1].is_bookmarked # 0)]
    ELSE [tags |-> "", notes |-> "", bookmarks |-> <<>>, is_bookmarked |-> FALSE]

\* variant: the row is replaced as a whole
update_bookmark_status_replace(db, f, flag, t) ==
    [db EXCEPT ![f] = Some(Row("", "", <<>>, IF flag THEN 1 ELSE 0, t))]

\* update_bookmark_status(file_path, is_bookmarked) at time t
update_bookmark_status(db, f, flag, t) ==
    IF db[f] # None
    THEN [db EXCEPT ![f] = Some([@[1] EXCEPT !.is_bookmarked = IF flag THEN 1 ELSE 0,
                                             !.last_modified = t])]
    ELSE [db EXCEPT ![f] = Some(Row("", "", <<>>, IF flag THEN 1 ELSE 0, t))]

\* update_pdf_metadata(file_path, tags, notes, bookmarks) at time t: an
\* insert leaves is_bookmarked at its default 0, a conflict keeps it
update_pdf_metadata(db, f, tags, notes, bookmarks, t) ==
    IF db[f] # None
    THEN [db EXCEPT ![f] = Some(Row(tags, notes, bookmarks, @[1].is_bookmarked, t))]
    ELSE [db EXCEPT ![f] = Some(Row(tags, notes, bookmarks, 0, t))]

\* PDFManager.update_custom(file_path, bookmarks=...)
update_custom_bookmarks(db, f, bookmarks, t) ==
    update_pdf_metadata(db, f, get_pdf_metadata(db, f).tags,
                        get_pdf_metadata(db, f).notes, bookmarks, t)

\* PDFManager.update_custom(file_path, tags=..., notes=...)
update_custom_tags_notes(db, f, tags, notes, t) ==
    update_pdf_metadata(db, f, tags, notes, get_pdf_metadata(db, f).bookmarks, t)

\* ---- Storage: table root_history ----

\* save_root_history(path) at time t: an upsert on the unique path
save_root_history(rh, p, t) ==
    IF \E i \in 1..Len(rh) : rh[i].path = p
    THEN [i \in 1..Len(rh) |->
             IF rh[i].path = p THEN [rh[i] EXCEPT !.last_accessed = t] ELSE rh[i]]
    ELSE Append(rh, [path |-> p, last_accessed |-> t])

\* get_root_history(): the paths in an order the query allows, which is any
\* order with last_accessed descending (rows of one stamp in any order)
get_root_history(rh) ==
    {[i \in 1..Len(rh) |-> rh[h[i]].path] :
        h \in {g \in [1..Len(rh) -> 1..Len(rh)] :
                  /\ \A i \in 1..Len(rh) : \A j \in 1..Len(rh) : i # j => g[i] # g[j]
                  /\ \A i \in 1..Len(rh) : \A j \in 1..Len(rh) :
                         i < j => rh[g[i]].last_accessed >= rh[g[j]].last_accessed}}

\* the paths saved so far with p saved last
MoveToFront(seq, p) ==
    LET Other(x) == x # p IN <<p>> \o SelectSeq(seq, Other)

\* ---- BookmarkService ----

\* variant: the new status is always True
new_status_set(meta) == TRUE

\* new_status = not meta.get('is_bookmarked', False)
new_status(meta) == ~meta.is_bookmarked

is_bookmarked(f) == get_pdf_metadata(pdf_metadata, f).is_bookmarked

\* ---- CoreApp.scan ----

\* get_meta(row): the columns tags, notes, has_toc, is_bookmarked
get_meta(db, f) ==
    LET meta == get_pdf_metadata(db, f)
    IN  [tags |-> meta.tags, notes |-> meta.notes,
         has_toc |-> (IF truthy(meta.bookmarks) THEN TRUE ELSE has_toc(f)),
         is_bookmarked |-> meta.is_bookmarked]

scan(db) == Some([f \in Files |-> get_meta(db, f)])

\* the clock advances
Tick ==
    /\ now < MaxClock
    /\ now' = now + 1
    /\ UNCHANGED <<pdf_metadata, root_history, current_plan, current_root, result,
                   toggles, recent>>

\* CoreApp.scan(directory_path) of the folder
Scan ==
    /\ current_plan' = scan(pdf_metadata)
    /\ UNCHANGED <<now, pdf_metadata, root_history, current_root, result, toggles,
                   recent>>

\* MainController._load_folder_data(folder_path): scan, table, root history
LoadFolder ==
    /\ current_plan' = scan(pdf_metadata)
    /\ current_root' = Some(Root)
    /\ root_history' = save_root_history(root_history, Root, now)
    /\ recent' = MoveToFront(recent, Root)
    /\ UNCHANGED <<now, pdf_metadata, result, toggles>>

\* MainController.on_toc_action(index) on the row of file f: a file whose
\* record holds bookmarks is opened in a reader window (no effect on the
\* state kept here); else its outline is extracted, stored as JSON and the
\* folder is loaded again
OnTocAction(f) ==
    /\ current_root # None
    /\ IF truthy(get_pdf_metadata(pdf_metadata, f).bookmarks)
       THEN UNCHANGED <<pdf_metadata, current_plan, root_history, recent>>
       ELSE LET db == update_custom_bookmarks(pdf_metadata, f,
                                              json_dumps(get_toc(f)), now)
            IN  /\ pdf_metadata' = db
                /\ current_plan' = scan(db)
                /\ root_history' = save_root_history(root_history, Root, now)
                /\ recent' = MoveToFront(recent, Root)
    /\ UNCHANGED <<now, current_root, result, toggles>>

\* the database after the batch loop over the files fs
RECURSIVE batch_toc(_, _, _)
batch_toc(db, fs, t) ==
    IF fs = {} THEN db
    ELSE LET f == CHOOSE x \in fs : TRUE
         IN  batch_toc(update_custom_bookmarks(db, f, json_dumps(get_toc(f)), t),
                       fs \ {f}, t)

\* MainController.on_batch_toc_generation(indexes) on the rows of the files
\* fs, the question answered with Yes
OnBatchToc(fs) ==
    /\ current_root # None /\ fs # {}
    /\ pdf_metadata' = batch_toc(pdf_metadata, fs, now)
    /\ current_plan' = scan(batch_toc(pdf_metadata, fs, now))
    /\ root_history' = save_root_history(root_history, Root, now)
    /\ recent' = MoveToFront(recent, Root)
    /\ UNCHANGED <<now, current_root, result, toggles>>

MetaTags  == {"work"}
MetaNotes == {"important"}

\* MainController.save_metadata(file_path, tags, notes), as far as the
\* database goes: CoreApp.update_file_metadata
SaveMetadata(f, tags, notes) ==
    /\ pdf_metadata' = update_custom_tags_notes(pdf_metadata, f, tags, notes, now)
    /\ UNCHANGED <<now, root_history, current_plan, current_root, result, toggles,
                   recent>>

\* CoreApp.toggle_bookmark(file_path)
ToggleBookmark(f) ==
    /\ toggles[f] < MaxToggles
    /\ LET meta == get_pdf_metadata(pdf_metadata, f)
       IN  /\ pdf_metadata' = update_bookmark_status(pdf_metadata, f, new_status(meta), now)
           /\ result' = [op |-> "toggle_bookmark", file |-> f,
                         before |-> meta.is_bookmarked, value |-> new_status(meta)]
    /\ toggles' = [toggles EXCEPT ![f] = @ + 1]
    /\ UNCHANGED <<now, root_history, current_plan, current_root, recent>>

InitApp == ModelInit /\ TreeIdle /\ AppIdle

NextApp ==
    \/ Tick /\ UNCHANGED <<tocVars, treeVars, lifeVars>>
    \/ Scan /\ UNCHANGED <<tocVars, treeVars, lifeVars>>
    \/ LoadFolder /\ UNCHANGED <<tocVars, treeVars, lifeVars>>
    \/ (\E f \in Files : OnTocAction(f)) /\ UNCHANGED <<tocVars, treeVars, lifeVars>>
    \/ (\E fs \in SUBSET Files : OnBatchToc(fs)) /\ UNCHANGED <<tocVars, treeVars, lifeVars>>
    \/ (\E f \in Files, tags \in MetaTags, notes \in MetaNotes :
            SaveMetadata(f, tags, notes)) /\ UNCHANGED <<tocVars, treeVars, lifeVars>>
    \/ (\E f \in Files : ToggleBookmark(f)) /\ UNCHANGED <<tocVars, treeVars, lifeVars>>

SpecApp == InitApp /\ [][NextApp]_vars

\* ---- the root history on its own ----

HistoryPaths == {"folder_a", "folder_b", "folder_c"}

\* Storage.save_root_history(path)
SaveRootHistory(p) ==
    /\ root_history' = save_root_history(root_history, p, now)
    /\ recent' = MoveToFront(recent, p)
    /\ result' = [op |-> "save_root_history", path |-> p]
    /\ UNCHANGED <<now, pdf_metadata, current_plan, current_root, toggles>>

\* Storage.get_root_history()
GetRootHistory ==
    /\ \E h \in get_root_history(root_history) :
           result' = [op |-> "get_root_history", value |-> h]
    /\ UNCHANGED <<now, pdf_metadata, root_history, current_plan, current_root,
                   toggles, recent>>

NextHistory ==
    \/ Tick /\ UNCHANGED <<tocVars, treeVars, lifeVars>>
    \/ (\E p \in HistoryPaths : SaveRootHistory(p)) /\ UNCHANGED <<tocVars, treeVars, lifeVars>>
    \/ GetRootHistory /\ UNCHANGED <<tocVars, treeVars, lifeVars>>

SpecHistory == InitApp /\ [][NextHistory]_vars

----------------------------------------------------------------------------
(* PDFBookmarkModel over its life: documents are attached and replaced,    *)
(* the outline is generated, saved and cleared.  doc.set_toc and doc.save  *)
(* belong to the document library; each either returns or raises.          *)

Called(op, ok) == [op |-> op, ok |-> ok]

\* the frame of a call that has ended holds nothing
NoFrame ==
    /\ pc' = "idle"
    /\ font_threshold' = 0 /\ max_levels' = 0 /\ force_page_heading' = FALSE
    /\ body_size' = 0 /\ heading_sizes' = <<>> /\ body_color_key' = None
    /\ toc' = <<>> /\ seen' = {} /\ page_num' = 0
    /\ FreshLocals

Idle == pc \in {"idle", "done"} /\ Len(calls) < MaxOps

\* the documents attached: no page; a page with a 20pt line, a line without
\* spans, a line without letters and a 10pt line, then a page that fails to
\* extract; a page with a body line only
LifeDocs ==
    { MakeDoc(0, <<>>, <<>>, <<>>),
      MakeDoc(2, << << Span(<<"A">>, 400, "black") >>,
                    <<>>,
                    << Span(<<"1">>, 400, "black") >>,
                    << Span(<<"B">>, 200, "black"), Span(<<"B">>, 200, "black") >> >>,
              <<1, 1, 1, 1>>, <<TRUE, FALSE>>),
      MakeDoc(1, << << Span(<<"B">>, 200, "black"), Span(<<"B">>, 200, "black") >> >>,
              <<1>>, <<TRUE>>) }
\* what doc.get_toc() gives: it raises, no outline, an outline of one entry
LifeOutlines == {None, Some(<<>>), Some(<< <<1, <<"B">>, 1>> >>)}
LifePaths == {None, Some("a.pdf")}

\* set_document(doc, pdf_path) with a document d whose get_toc gives t
set_document_over(d, path, t) ==
    /\ Idle
    /\ doc' = Some(d) /\ pdf_path' = path /\ doc_toc' = t
    /\ self_toc' = IF t = None THEN <<>> ELSE t[1]
    /\ generated' = FALSE /\ modified' = FALSE
    /\ calls' = Append(calls, Called("set_document", TRUE))
    /\ NoFrame
    /\ UNCHANGED returns

\* set_document(None, pdf_path): doc.get_toc() raises on None
set_document_none(path) ==
    /\ Idle
    /\ doc' = None /\ pdf_path' = path /\ doc_toc' = None
    /\ self_toc' = <<>>
    /\ generated' = FALSE /\ modified' = FALSE
    /\ calls' = Append(calls, Called("set_document", TRUE))
    /\ NoFrame
    /\ UNCHANGED returns

AttachDocument ==
    \/ \E d \in LifeDocs, path \in LifePaths, t \in LifeOutlines :
           set_document_over(d, path, t)
    \/ \E path \in LifePaths : set_document_none(path)

\* clear()
Clear ==
    /\ Idle
    /\ doc' = None /\ pdf_path' = None /\ doc_toc' = None
    /\ self_toc' = <<>>
    /\ generated' = FALSE /\ modified' = FALSE
    /\ calls' = Append(calls, Called("clear", TRUE))
    /\ NoFrame
    /\ UNCHANGED returns

\* a call that raises before it assigns anything
Raises(op) ==
    /\ calls' = Append(calls, Called(op, FALSE))
    /\ NoFrame
    /\ UNCHANGED <<doc, pdf_path, doc_toc, self_toc, generated, modified, returns>>

\* auto_generate_toc(...) with no document attached: RuntimeError
GenerateNoDoc ==
    /\ Idle /\ doc = None
    /\ Raises("auto_generate_toc")

\* _ensure_doc()
ensure_doc == doc # None /\ pdf_path # None

SaveOutcomes == {"saved", "set_toc raises", "save raises"}

\* the fields after doc.set_toc(self.toc) and doc.save(...) as far as they
\* get; reset tells whether generated is reset with modified
Saving(op, outcome, reset) ==
    IF outcome = "set_toc raises" THEN Raises(op)
    ELSE /\ doc_toc' = Some(self_toc)
         /\ calls' = Append(calls, Called(op, outcome = "saved"))
         /\ modified' = IF outcome = "saved" THEN FALSE ELSE modified
         /\ generated' = IF outcome = "saved" /\ reset THEN FALSE ELSE generated
         /\ NoFrame
         /\ UNCHANGED <<doc, pdf_path, self_toc, returns>>

\* save_inplace()
SaveInplace ==
    /\ Idle
    /\ IF ~ensure_doc THEN Raises("save_inplace")
       ELSE \E outcome \in SaveOutcomes : Saving("save_inplace", outcome, TRUE)

\* variant: a saved copy leaves modified as it is
SaveCopy_unsaved ==
    /\ Idle
    /\ IF ~ensure_doc THEN Raises("save_copy")
       ELSE \E outcome \in SaveOutcomes :
                IF outcome = "set_toc raises" THEN Raises("save_copy")
                ELSE /\ doc_toc' = Some(self_toc)
                     /\ calls' = Append(calls, Called("save_copy", outcome = "saved"))
                     /\ NoFrame
                     /\ UNCHANGED <<doc, pdf_path, self_toc, generated,
                                    modified, returns>>

\* save_copy(suffix)
SaveCopy ==
    /\ Idle
    /\ IF ~ensure_doc THEN Raises("save_copy")
       ELSE \E outcome \in SaveOutcomes : Saving("save_copy", outcome, FALSE)

LifeLevels == {0, 2}

\* auto_generate_toc(...) on the attached document, to its return
GenerateNoTextLife ==
    /\ Idle /\ doc # None
    /\ \E ft \in FontThresholds, ml \in LifeLevels, force \in BOOLEAN :
           GenerateNoText(ft, ml, force)
    /\ calls' = Append(calls, Called("auto_generate_toc", TRUE))
    /\ UNCHANGED <<pdf_path, doc_toc>>

GenerateProfileLife ==
    /\ Idle /\ doc # None
    /\ \E ft \in FontThresholds, ml \in LifeLevels, force \in BOOLEAN :
           GenerateProfile(ft, ml, force)
    /\ UNCHANGED lifeVars

FinishLife ==
    /\ Finish
    /\ calls' = Append(calls, Called("auto_generate_toc", TRUE))
    /\ UNCHANGED <<pdf_path, doc_toc>>

InitLife == ModelInit /\ TreeIdle /\ AppIdle

NextLife ==
    \/ AttachDocument /\ UNCHANGED <<treeVars, appVars>>
    \/ Clear /\ UNCHANGED <<treeVars, appVars>>
    \/ GenerateNoDoc /\ UNCHANGED <<treeVars, appVars>>
    \/ SaveInplace /\ UNCHANGED <<treeVars, appVars>>
    \/ SaveCopy /\ UNCHANGED <<treeVars, appVars>>
    \/ GenerateNoTextLife /\ UNCHANGED <<treeVars, appVars>>
    \/ GenerateProfileLife /\ UNCHANGED <<treeVars, appVars>>
    \/ SkipFailedPage /\ UNCHANGED <<treeVars, appVars, lifeVars>>
    \/ BeginPage /\ UNCHANGED <<treeVars, appVars, lifeVars>>
    \/ SkipEmptyLine /\ UNCHANGED <<treeVars, appVars, lifeVars>>
    \/ BlankLine /\ UNCHANGED <<treeVars, appVars, lifeVars>>
    \/ NonHeadingLine /\ UNCHANGED <<treeVars, appVars, lifeVars>>
    \/ HeadingLine /\ UNCHANGED <<treeVars, appVars, lifeVars>>
    \/ EndPage /\ UNCHANGED <<treeVars, appVars, lifeVars>>
    \/ FinishLife /\ UNCHANGED <<treeVars, appVars>>

SpecLife == InitLife /\ [][NextLife]_vars

----------------------------------------------------------------------------
(* Properties of the reconstruction *)

ParentsOf(i) ==
    {k \in 1..Len(nodes) : \E c \in 1..Len(nodes[k].children) : nodes[k].children[c] = i}

ShallowerBefore(i) == {j \in 1..(i - 1) : toc_raw[j].lvl < toc_raw[i].lvl}

\* the forest below the given roots, in pre-order
RECURSIVE Preorder(_, _)
Preorder(ns, roots) ==
    IF roots = <<>> THEN <<>>
    ELSE <<Head(roots)>> \o Preorder(ns, ns[Head(roots)].children)
                         \o Preorder(ns, Tail(roots))

\* C2: with all levels >= 1, the parent of every placed entry is the nearest
\* preceding entry of a strictly smaller level, and the entry is a root
\* exactly when no preceding entry has a strictly smaller level.
C2_NearestShallowerParent ==
    (\A j \in 1..Len(toc_raw) : toc_raw[j].lvl >= 1) =>
        \A i \in 1..Len(nodes) :
            /\ ShallowerBefore(i) = {} =>
                   ParentsOf(i) = {} /\ i \in Range(toc_tree)
            /\ ShallowerBefore(i) # {} =>
                   ParentsOf(i) = {SetMax(ShallowerBefore(i))} /\ i \notin Range(toc_tree)

\* [(1,A,1),(3,B,1),(2,C,1)] has been rebuilt: A is the root, B and C its children
C2_Witness ==
    /\ tpc = "done" /\ Len(toc_raw) = 3
    /\ toc_raw[1].lvl = 1 /\ toc_raw[2].lvl = 3 /\ toc_raw[3].lvl = 2
    /\ toc_tree = <<1>>
    /\ nodes[1].children = <<2, 3>>

\* C3: the forest returned for a non-empty flat outline holds every input
\* entry exactly once, whatever the levels.
C3_EveryEntryOnce ==
    (tpc = "done" /\ toc_raw # <<>>) =>
        /\ Len(Preorder(nodes, toc_tree)) = Len(toc_raw)
        /\ Range(Preorder(nodes, toc_tree)) = 1..Len(toc_raw)

\* an outline that starts below level 1 and then jumps from 1 to 3 is rebuilt
C3_Witness ==
    /\ tpc = "done" /\ Len(toc_raw) = 3
    /\ toc_raw[1].lvl = 2 /\ toc_raw[2].lvl = 1 /\ toc_raw[3].lvl = 3
    /\ Len(Preorder(nodes, toc_tree)) = 3

\* a flat outline is well formed: it starts at level 1 and no level is below
\* 1 or more than one above the level before it
WellFormed(raw) ==
    /\ raw # <<>> => raw[1].lvl = 1
    /\ \A i \in 2..Len(raw) : 1 <= raw[i].lvl /\ raw[i].lvl <= raw[i - 1].lvl + 1

\* the pre-order walk of the forest below the given roots that gives every
\* node its depth as level
RECURSIVE FlattenForest(_, _, _)
FlattenForest(ns, roots, depth) ==
    IF roots = <<>> THEN <<>>
    ELSE << <<depth, ns[Head(roots)].title, ns[Head(roots)].page>> >>
         \o FlattenForest(ns, ns[Head(roots)].children, depth + 1)
         \o FlattenForest(ns, Tail(roots), depth)

Triples(raw) == [i \in 1..Len(raw) |-> <<raw[i].lvl, raw[i].title, raw[i].page>>]

\* C11: the forest built from a well-formed flat outline, flattened by the
\* pre-order walk with level = depth, is the flat outline again.
C11_RoundTrip ==
    (tpc = "done" /\ WellFormed(toc_raw)) =>
        FlattenForest(nodes, toc_tree, 1) = Triples(toc_raw)

\* a root with two different children has been rebuilt and flattens back
C11_Witness ==
    /\ tpc = "done" /\ WellFormed(toc_raw) /\ Len(toc_raw) = 3
    /\ toc_raw[2].lvl = 2 /\ toc_raw[3].lvl = 2
    /\ toc_raw[2].title # toc_raw[3].title
    /\ nodes[1].children = <<2, 3>>
    /\ FlattenForest(nodes, toc_tree, 1) = Triples(toc_raw)

\* C19: the forest PDFRenderer.get_toc builds from the (level, title, page)
\* of a file equals the forest PDFEngine.extract_toc builds from the same
\* entries with their destinations: same roots, and for every entry the same
\* title, page and children in the same order.
C19_SameShape ==
    (tpc = "done" /\ rpc = "done") =>
        /\ r_tree = toc_tree
        /\ Len(r_nodes) = Len(nodes)
        /\ \A i \in 1..Len(nodes) :
               /\ r_nodes[i].title = nodes[i].title
               /\ r_nodes[i].page = nodes[i].page
               /\ r_nodes[i].children = nodes[i].children

\* both have rebuilt an outline whose entries carry destinations and whose
\* second entry has an equal-level successor
C19_Witness ==
    /\ tpc = "done" /\ rpc = "done" /\ Len(toc_raw) = 3
    /\ toc_raw[1].dest = DictToY /\ toc_raw[2].dest = NoDest
    /\ toc_raw[1].lvl = 1 /\ toc_raw[2].lvl = 2 /\ toc_raw[3].lvl = 2
    /\ r_tree = <<1>> /\ r_nodes[1].children = <<2, 3>>
    /\ nodes[1].dest_y = 7

\* the vertical coordinate of the target of a destination, when there is one
TargetY(dest) ==
    IF dest \in {NoDest, EmptyDict, NonDict, DictNoTo, DictToNoY} THEN 0
    ELSE dest[1].to[1].y[1]

\* C20: every node's dest_y is the y of its entry's destination target when
\* the entry has a destination with a target point, and 0 for an entry of
\* three fields, an empty or non-dict destination, a destination without
\* 'to' and a target without y; every entry gets its node.
C20_DestY ==
    /\ \A i \in 1..Len(nodes) : nodes[i].dest_y = TargetY(toc_raw[i].dest)
    /\ tpc = "done" => Len(nodes) = Len(toc_raw)

\* an outline with a target point, a target without y and a non-dict
\* destination has been rebuilt
C20_Witness ==
    /\ tpc = "done" /\ Len(toc_raw) = 3
    /\ toc_raw[1].dest = DictToY /\ nodes[1].dest_y = 7
    /\ toc_raw[2].dest = DictToNoY /\ nodes[2].dest_y = 0
    /\ toc_raw[3].dest = NonDict /\ nodes[3].dest_y = 0

----------------------------------------------------------------------------
(* Properties of the outline generation.  They are stated over the         *)
(* document: the lines of a page that carry a span, the level each of them *)
(* is classified at, and the maximal runs of neighbouring lines of one     *)
(* level.                                                                  *)

Pages == IF doc = None THEN <<>> ELSE doc[1]

\* the extracted pages whose scan is complete
ScannedPages ==
    IF pc \in {"page", "line", "done"}
    THEN {q \in 1..Len(Pages) : q < page_num /\ Pages[q].ok}
    ELSE {}

EntriesOf(q) == LET OnPage(e) == e[3] = q IN SelectSeq(toc, OnPage)

\* the lines of page q that have spans
TextLines(q) == LET HasSpans(l) == l # <<>> IN SelectSeq(PageLines(Pages[q]), HasSpans)

LevelOf(l) ==
    IF is_blank(l) THEN None
    ELSE line_heading_level(heading_sizes, body_size, body_color_key, l)

HasHeading(q) == \E k \in 1..Len(TextLines(q)) : LevelOf(TextLines(q)[k]) # None

\* <<i, j>>: lines i..j of ls are headings of one level, and neither the
\* line before nor the line after is a heading of that level
Runs(ls) ==
    {r \in (1..Len(ls)) \X (1..Len(ls)) :
        /\ r[1] <= r[2]
        /\ LevelOf(ls[r[1]]) # None
        /\ \A k \in r[1]..r[2] : LevelOf(ls[k]) = LevelOf(ls[r[1]])
        /\ r[1] > 1 => LevelOf(ls[r[1] - 1]) # LevelOf(ls[r[1]])
        /\ r[2] < Len(ls) => LevelOf(ls[r[2] + 1]) # LevelOf(ls[r[1]])}

RunEntry(ls, r, q) ==
    << LevelOf(ls[r[1]])[1],
       join_space([k \in 1..(r[2] - r[1] + 1) |-> line_text(ls[r[1] + k - 1])]),
       q >>

\* C1: on a scanned page with headings, the entries of the page are exactly
\* the maximal runs of neighbouring same-level heading lines, one entry per
\* run, titled with the texts of the run's lines joined by single spaces.
C1_RunsMerged ==
    \A q \in ScannedPages :
        HasHeading(q) =>
            Range(EntriesOf(q)) =
                {RunEntry(TextLines(q), r, q) : r \in Runs(TextLines(q))}

\* two heading lines "A" and "B" of one level, in different blocks of page 1,
\* have become the single entry "A B"
C1_Witness ==
    /\ pc = "done" /\ Len(Pages) = 1 /\ Pages[1].ok
    /\ Len(Pages[1].blocks) = 3
    /\ Len(TextLines(1)) = 2
    /\ Runs(TextLines(1)) = {<<1, 2>>}
    /\ line_text(TextLines(1)[1]) = <<"A">>
    /\ line_text(TextLines(1)[2]) = <<"B">>
    /\ self_toc = << <<1, <<"A", " ", "B">>, 1>> >>

\* the line the scan has just passed
PrevLine == CurLines[line_idx - 1]
AfterTextLine ==
    /\ pc = "line" /\ line_idx > 1
    /\ PrevLine # <<>> /\ ~is_blank(PrevLine)

HeadingSizeSet == Range(heading_sizes)
\* the level of heading size h: one more than the number of larger heading sizes
RankOf(h) == 1 + Cardinality({g \in HeadingSizeSet : g > h})
\* the heading sizes the line meets by its rounded size
MetBySize(l) == {hs \in HeadingSizeSet : round05(line_max_size(l)) >= hs}
\* the heading sizes the line meets at 0.9x tolerance
MetAtTolerance(l) == {hs \in HeadingSizeSet : 10 * line_max_size(l) >= 9 * hs}
DeepestLevel == IF heading_sizes = <<>> THEN 1 ELSE Len(heading_sizes)

\* C4 as stated: the size-based level is that of the smallest heading size
\* the rounded size of the line meets.
C4_SmallestMetSize ==
    (AfterTextLine /\ MetBySize(PrevLine) # {}) =>
        current_level = Some(RankOf(SetMin(MetBySize(PrevLine))))

\* C4 amended: the size-based level is that of the largest heading size the
\* rounded size of the line meets (the shallowest level it qualifies for), and
\* a line that meets no heading size and has the body colour is no heading.
C4_LargestMetSize ==
    AfterTextLine =>
        /\ MetBySize(PrevLine) # {} =>
               current_level = Some(RankOf(SetMax(MetBySize(PrevLine))))
        /\ (MetBySize(PrevLine) = {} /\ line_color_key(PrevLine) = body_color_key) =>
               current_level = None

\* a line that meets two heading sizes has been given level 1
C4_Witness ==
    /\ AfterTextLine
    /\ Cardinality(MetBySize(PrevLine)) = 2
    /\ current_level = Some(1)

\* C5: no two entries of the outline share (page, level, title).
C5_NoDuplicateEntries ==
    /\ \A i \in 1..Len(toc) : \A j \in 1..Len(toc) : i # j => toc[i] # toc[j]
    /\ \A i \in 1..Len(self_toc) : \A j \in 1..Len(self_toc) :
           i # j => self_toc[i] # self_toc[j]

\* a page held two separate runs with the same level and title, and a
\* single entry
C5_Witness ==
    /\ pc = "done"
    /\ \E q \in ScannedPages :
           /\ \E r1 \in Runs(TextLines(q)) : \E r2 \in Runs(TextLines(q)) :
                  /\ r1 # r2
                  /\ RunEntry(TextLines(q), r1, q) = RunEntry(TextLines(q), r2, q)
           /\ Len(EntriesOf(q)) = 1

\* the line at which the first run with entry e ends on page q
FirstRunEnd(q, e) ==
    SetMin({r[2] : r \in {x \in Runs(TextLines(q)) : RunEntry(TextLines(q), x, q) = e}})

\* C6: the pages of the entries never decrease along the outline, and the
\* entries of a page stand in the order in which their runs ended.
C6_PageThenRunOrder ==
    /\ \A i \in 1..Len(toc) : \A j \in 1..Len(toc) : i < j => toc[i][3] <= toc[j][3]
    /\ \A q \in ScannedPages :
           HasHeading(q) =>
               \A a \in 1..Len(EntriesOf(q)) : \A b \in 1..Len(EntriesOf(q)) :
                   a < b => FirstRunEnd(q, EntriesOf(q)[a]) < FirstRunEnd(q, EntriesOf(q)[b])

\* an outline with one entry of page 1 followed by two entries of page 2
C6_Witness ==
    /\ pc = "done" /\ Len(self_toc) = 3
    /\ self_toc[1][3] = 1 /\ self_toc[2][3] = 2 /\ self_toc[3][3] = 2

\* C7 as stated: every entry has 1 <= level <= max_levels.
C7_LevelWithinMaxLevels ==
    \A i \in 1..Len(toc) : 1 <= toc[i][1] /\ toc[i][1] <= max_levels

\* C7 amended: for max_levels >= 1, every entry has 1 <= level <= max_levels.
C7_LevelWithinPositiveMaxLevels ==
    max_levels >= 1 =>
        /\ \A i \in 1..Len(toc) : 1 <= toc[i][1] /\ toc[i][1] <= max_levels
        /\ \A i \in 1..Len(self_toc) : 1 <= self_toc[i][1] /\ self_toc[i][1] <= max_levels

\* with max_levels = 1 and two sizes above the threshold, an outline of two
\* entries
C7_Witness ==
    /\ pc = "done" /\ max_levels = 1
    /\ Cardinality({s \in Range(unique_sizes(collect_sizes(Pages))) :
                        s > max2(body_size, font_threshold)}) = 2
    /\ Len(self_toc) = 2

\* C8 as stated: once the scan has passed a line without spans, a line
\* without a letter or a non-heading line, no heading run is pending.
C8_RunEndsAtEveryNonHeading ==
    (/\ pc = "line" /\ line_idx > 1
     /\ (PrevLine = <<>> \/ LevelOf(PrevLine) = None)) =>
        current_title = <<>> /\ current_level = None

\* the fallback candidates of page q: the lines with a letter and a size > 0
Candidates(q) ==
    {k \in 1..Len(TextLines(q)) :
        ~is_blank(TextLines(q)[k]) /\ line_max_size(TextLines(q)[k]) > 0}
\* the first of the candidates of the largest size
BestLine(q) ==
    SetMin({k \in Candidates(q) :
        \A m \in Candidates(q) :
            line_max_size(TextLines(q)[m]) <= line_max_size(TextLines(q)[k])})
FallbackEntry(q) == <<DeepestLevel, line_text(TextLines(q)[BestLine(q)]), q>>

\* C9 as stated: with force_page_heading, a page without a line larger than
\* max(body_size, font_threshold) has the fallback entry as its only entry.
C9_FallbackWithoutLargeLine ==
    \A q \in ScannedPages :
        (/\ force_page_heading
         /\ Candidates(q) # {}
         /\ \A k \in 1..Len(TextLines(q)) :
                line_max_size(TextLines(q)[k]) <= max2(body_size, font_threshold)) =>
            EntriesOf(q) = <<FallbackEntry(q)>>

\* C9 amended: a scanned page on which no line is classified as a heading (by
\* size or by colour) has, with force_page_heading and a candidate line, the
\* one entry <<deepest level, text of the first largest candidate, page>>,
\* and no entry otherwise.
C9_FallbackWithoutHeading ==
    \A q \in ScannedPages :
        ~HasHeading(q) =>
            IF force_page_heading /\ Candidates(q) # {}
            THEN EntriesOf(q) = <<FallbackEntry(q)>>
            ELSE EntriesOf(q) = <<>>

\* page 2 has two text lines, none a heading, and carries the fallback entry
C9_Witness ==
    /\ pc = "done" /\ force_page_heading
    /\ 2 \in ScannedPages /\ 1 \in ScannedPages
    /\ HasHeading(1)
    /\ ~HasHeading(2) /\ Len(TextLines(2)) = 2 /\ Candidates(2) # {}
    /\ EntriesOf(2) = <<FallbackEntry(2)>>

\* C10 as stated: a line without a size-based level is a heading exactly when
\* its colour differs from the body colour and its size is >= 0.9 x body_size,
\* at the deepest level whose size it meets at 0.9x, else the deepest level.
C10_ColourRuleDeepestMet ==
    (AfterTextLine /\ MetBySize(PrevLine) = {}) =>
        IF line_color_key(PrevLine) # body_color_key
           /\ 10 * line_max_size(PrevLine) >= 9 * body_size
        THEN current_level =
                 Some(IF MetAtTolerance(PrevLine) # {}
                      THEN RankOf(SetMin(MetAtTolerance(PrevLine)))
                      ELSE DeepestLevel)
        ELSE current_level = None

\* C10 amended: such a line is a heading exactly when a body colour was found,
\* the line's colour differs from it and its size is >= 0.9 x body_size; its
\* level is that of the largest heading size it meets at 0.9x (the shallowest
\* such level), else the deepest level, or 1 without heading sizes.
C10_ColourRuleLargestMet ==
    (AfterTextLine /\ MetBySize(PrevLine) = {}) =>
        IF body_color_key # None
           /\ line_color_key(PrevLine) # body_color_key
           /\ 10 * line_max_size(PrevLine) >= 9 * body_size
        THEN current_level =
                 Some(IF MetAtTolerance(PrevLine) # {}
                      THEN RankOf(SetMax(MetAtTolerance(PrevLine)))
                      ELSE DeepestLevel)
        ELSE current_level = None

\* a coloured line below every heading size meets two of them at 0.9x and
\* is a heading of level 1
C10_Witness ==
    /\ AfterTextLine /\ MetBySize(PrevLine) = {}
    /\ Cardinality(MetAtTolerance(PrevLine)) = 2
    /\ current_level = Some(1)

----------------------------------------------------------------------------
(* The table of heading sizes *)

\* the call has computed the profile of a document with usable text
ProfileKnown == pc \in {"page", "line"} \/ (pc = "done" /\ body_size > 0)

\* the distinct 0.5-rounded sizes of the usable spans
RoundedSizes ==
    {round05(sp.size) : sp \in {x \in Range(DocSpans(Pages)) :
                                   isalpha_any(x.text) /\ x.size > 0}}
AboveThreshold == {s \in RoundedSizes : s > max2(body_size, font_threshold)}
\* the k largest elements of S (all of S when it has fewer)
LargestOf(S, k) == {s \in S : Cardinality({g \in S : g > s}) < k}
\* the i-th heading size has i - 1 larger sizes among S, and level i
RankedWithin(S) ==
    \A i \in 1..Len(heading_sizes) :
        /\ Cardinality({g \in S : g > heading_sizes[i]}) = i - 1
        /\ size_to_level(heading_sizes, heading_sizes[i]) = i

\* C12: for a count max_levels >= 0 and some rounded size above the
\* threshold, the heading sizes are exactly the max_levels largest rounded
\* sizes above the threshold, the i-th largest at level i; and body 10, one
\* line of size 20, threshold 14 and max_levels 3 give one entry of level 1.
\* (What a negative max_levels selects is the subject of C14.)
C12_LargestAboveThreshold ==
    /\ (ProfileKnown /\ max_levels >= 0 /\ AboveThreshold # {}) =>
           /\ HeadingSizeSet = LargestOf(AboveThreshold, max_levels)
           /\ RankedWithin(AboveThreshold)
    /\ (/\ pc = "done" /\ body_size = 200 /\ font_threshold = 280 /\ max_levels = 3
        /\ Len(Pages) = 1 /\ Pages[1].ok /\ Len(TextLines(1)) = 2
        /\ line_max_size(TextLines(1)[1]) = 200
        /\ line_max_size(TextLines(1)[2]) = 400 /\ ~is_blank(TextLines(1)[2])) =>
           self_toc = << <<1, line_text(TextLines(1)[2]), 1>> >>

\* three sizes lie above the threshold and max_levels = 2 keeps the two
\* largest, 20pt at level 1 and 19pt at level 2
C12_Witness ==
    /\ pc = "done" /\ max_levels = 2
    /\ AboveThreshold = {360, 380, 400}
    /\ heading_sizes = <<400, 380>>
    /\ \E i \in 1..Len(self_toc) : self_toc[i][1] = 2

\* C13 as stated, for a count max_levels >= 0: when no rounded size exceeds
\* the threshold the heading sizes are the max_levels largest rounded sizes
\* observed, and the table is not empty whenever the document has a usable
\* span size.
C13_FallbackNeverEmpty ==
    (ProfileKnown /\ RoundedSizes # {} /\ max_levels >= 0) =>
        /\ AboveThreshold = {} => HeadingSizeSet = LargestOf(RoundedSizes, max_levels)
        /\ heading_sizes # <<>>

\* C13 amended: for max_levels >= 1, when no rounded size exceeds the
\* threshold the heading sizes are the max_levels largest rounded sizes
\* observed, the i-th largest at level i, and the table is not empty whenever
\* the document has a usable span size.
C13_FallbackNonEmptyForPositive ==
    (ProfileKnown /\ RoundedSizes # {} /\ max_levels >= 1) =>
        /\ AboveThreshold = {} =>
               /\ HeadingSizeSet = LargestOf(RoundedSizes, max_levels)
               /\ RankedWithin(RoundedSizes)
        /\ heading_sizes # <<>>

\* no size above 14pt: of the sizes 10pt and 11pt, max_levels = 1 keeps 11pt
C13_Witness ==
    /\ pc = "done" /\ max_levels = 1
    /\ RoundedSizes = {200, 220} /\ AboveThreshold = {}
    /\ heading_sizes = <<220>>

\* C14: with max_levels <= 0 every entry of the outline has level 1.
C14_NonPositiveMaxLevelsLevelOne ==
    max_levels <= 0 =>
        /\ \A i \in 1..Len(toc) : toc[i][1] = 1
        /\ \A i \in 1..Len(self_toc) : self_toc[i][1] = 1

\* every span of every page, extracted or not
AllSpans == Flatten([p \in 1..Len(Pages) |-> Flatten(PageLines(Pages[p]))])
NoUsableSpan ==
    \A i \in 1..Len(AllSpans) : ~(isalpha_any(AllSpans[i].text) /\ AllSpans[i].size > 0)
LastReturn == returns[Len(returns)]

\* C15: on a document none of whose spans has both a letter and a size > 0,
\* the call never enters the scan; it returns 0 and leaves the empty outline.
C15_NoTextEmptyOutline ==
    (doc # None /\ NoUsableSpan) =>
        /\ pc \in {"idle", "done"}
        /\ pc = "done" =>
               /\ returns # <<>> /\ LastReturn.ret = 0 /\ LastReturn.toc = <<>>
               /\ self_toc = <<>> /\ toc = <<>>

\* the call has returned 0 on a document with a letter of size 0 and a
\* number of size 20pt
C15_Witness ==
    /\ pc = "done" /\ NoUsableSpan
    /\ \E i \in 1..Len(AllSpans) : isalpha_any(AllSpans[i].text) /\ AllSpans[i].size = 0
    /\ \E i \in 1..Len(AllSpans) : ~isalpha_any(AllSpans[i].text) /\ AllSpans[i].size > 0
    /\ returns # <<>> /\ LastReturn.ret = 0 /\ self_toc = <<>>

\* the entries a page can get from its own lines
OwnEntries(q) ==
    {RunEntry(TextLines(q), r, q) : r \in Runs(TextLines(q))}
    \cup (IF Candidates(q) # {} THEN {FallbackEntry(q)} ELSE {})

\* C16: a page whose extraction fails has no entry; the scan goes on behind
\* it, so that in the outline returned every extracted page with a heading
\* line has an entry, and every entry stands under the number of an
\* extracted page from whose lines it comes.
C16_FailedPageSkipped ==
    /\ \A q \in 1..Len(Pages) : ~Pages[q].ok => EntriesOf(q) = <<>>
    /\ (pc = "done" /\ body_size > 0) =>
           /\ \A q \in 1..Len(Pages) :
                  (Pages[q].ok /\ HasHeading(q)) => EntriesOf(q) # <<>>
           /\ \A i \in 1..Len(self_toc) :
                  /\ self_toc[i][3] \in 1..Len(Pages)
                  /\ Pages[self_toc[i][3]].ok
                  /\ self_toc[i] \in OwnEntries(self_toc[i][3])

\* page 1 holds a line but fails to extract, page 2 has a heading: the
\* outline is the one entry of page 2
C16_Witness ==
    /\ pc = "done" /\ Len(Pages) = 2
    /\ ~Pages[1].ok /\ Pages[1].blocks # <<>>
    /\ Pages[2].ok /\ HasHeading(2)
    /\ Len(self_toc) = 1 /\ self_toc[1][3] = 2

----------------------------------------------------------------------------
(* Repeated calls and the independence of the pages *)

SameArgs(a, b) ==
    /\ a.font_threshold = b.font_threshold /\ a.max_levels = b.max_levels
    /\ a.force_page_heading = b.force_page_heading

\* C17: calls with the same arguments on the same document return the same
\* outline and the same count, whatever toc, generated and modified were
\* before the call; self.toc is the outline of the last call.
C17_SameCallSameOutline ==
    /\ \A i \in 1..Len(returns) : \A j \in 1..Len(returns) :
           SameArgs(returns[i], returns[j]) =>
               returns[i].toc = returns[j].toc /\ returns[i].ret = returns[j].ret
    /\ (pc = "done" /\ returns # <<>>) => self_toc = LastReturn.toc

\* three calls: the first and the third with the same arguments and the same
\* outline, the second in between with another outline, and the second and
\* the third with the same arguments in a row
C17_Witness ==
    /\ pc = "done" /\ Len(returns) = 3
    /\ SameArgs(returns[1], returns[3]) /\ ~SameArgs(returns[1], returns[2])
    /\ returns[1].toc = returns[3].toc /\ returns[1].toc # <<>>
    /\ returns[2].toc # returns[1].toc

\* the scan of lines i.. of page q from the scan state st
ScanLine(st, l, q) ==
    IF l = <<>> THEN st
    ELSE LET fl == flush_current(st.toc, st.seen, st.title, st.level, q)
             closed == [st EXCEPT !.toc = fl.toc, !.seen = fl.seen,
                                  !.title = <<>>, !.level = None]
         IN  IF is_blank(l) THEN closed
             ELSE LET better == line_max_size(l) > st.best_size
                      bs  == IF better THEN line_max_size(l) ELSE st.best_size
                      bt  == IF better THEN line_text(l) ELSE st.best_text
                      lvl == LevelOf(l)
                  IN  IF lvl = None
                      THEN [closed EXCEPT !.best_size = bs, !.best_text = bt]
                      ELSE IF st.title # <<>> /\ st.level = lvl
                      THEN [st EXCEPT !.title = merge_title(st.title, st.level,
                                                            line_text(l), lvl),
                                      !.best_size = bs, !.best_text = bt,
                                      !.had = TRUE]
                      ELSE [closed EXCEPT !.title = line_text(l), !.level = lvl,
                                          !.best_size = bs, !.best_text = bt,
                                          !.had = TRUE]

RECURSIVE ScanFrom(_, _, _, _)
ScanFrom(st, ls, i, q) ==
    IF i > Len(ls) THEN st ELSE ScanFrom(ScanLine(st, ls[i], q), ls, i + 1, q)

\* the entries of page q when the page is scanned on its own: from an empty
\* outline, an empty seen set and no pending run
ScanAlone(q) ==
    LET st == ScanFrom([toc |-> <<>>, seen |-> {}, title |-> <<>>, level |-> None,
                        best_size |-> 0, best_text |-> <<>>, had |-> FALSE],
                       PageLines(Pages[q]), 1, q)
        fl == flush_current(st.toc, st.seen, st.title, st.level, q)
    IN  page_fallback(fl.toc, fl.seen, force_page_heading, st.had, st.best_text,
                      st.best_size, heading_sizes, q).toc

\* the per-page results put together in ascending page order
Assembled ==
    Flatten([q \in 1..Len(Pages) |-> IF Pages[q].ok THEN ScanAlone(q) ELSE <<>>])

\* C18: the entries of every scanned page are those the page gives when it
\* is scanned on its own, no run is pending between two pages, and the
\* outline returned is the per-page results in ascending page order.
C18_PagesIndependent ==
    /\ \A q \in ScannedPages : EntriesOf(q) = ScanAlone(q)
    /\ pc = "page" => current_title = <<>> /\ current_level = None
    /\ (pc = "done" /\ body_size > 0) => self_toc = Assembled

\* both pages end with the same heading line, and each has its entry
C18_Witness ==
    /\ pc = "done" /\ Len(Pages) = 2 /\ Len(self_toc) = 2
    /\ self_toc[1][3] = 1 /\ self_toc[2][3] = 2
    /\ self_toc[1][1] = self_toc[2][1] /\ self_toc[1][2] = self_toc[2][2]
    /\ HasHeading(1) /\ HasHeading(2)

----------------------------------------------------------------------------
(* The body size *)

\* the usable spans: <<p, i>> is span i of the extracted page p, with a
\* letter in its text and a size > 0
SpansOf(p) == Flatten(PageLines(Pages[p]))
UsableAt ==
    UNION {LET sp == SpansOf(p)
           IN  {<<p, i>> : i \in {j \in 1..Len(sp) :
                                     isalpha_any(sp[j].text) /\ sp[j].size > 0}} :
           p \in {q \in 1..Len(Pages) : Pages[q].ok}}
SizeAt(u) == SpansOf(u[1])[u[2]].size
\* the smallest size v of a usable span such that the spans of size <= v are
\* at least (strictly = FALSE) or more than (strictly = TRUE) half of them
MiddleValue(strictly) ==
    LET U  == UsableAt
        sz == [u \in U |-> SizeAt(u)]
        n  == Cardinality(U)
        NotAbove(v) == Cardinality({u \in U : sz[u] <= v})
        Half(v) == IF strictly THEN 2 * NotAbove(v) > n ELSE 2 * NotAbove(v) >= n
    IN  SetMin({v \in {sz[u] : u \in U} : Half(v)})
\* the two middle values of the sizes (one value for an odd number of spans)
LowerMiddle == MiddleValue(FALSE)
UpperMiddle == MiddleValue(TRUE)

\* C21: the body size is the median of the unrounded sizes of the spans, on
\* extracted pages, that have a letter and a size > 0: the middle value, or
\* for an even number of spans the average of the two middle values; the
\* median itself is not rounded.
C21_BodySizeIsMedian ==
    ProfileKnown =>
        /\ UsableAt # {}
        /\ 2 * body_size = LowerMiddle + UpperMiddle

\* two usable spans of 18.8pt and 20pt beside a page that fails to extract
\* and a letter of size 0: the body size is 19.4pt, off the 0.5pt grid
C21_Witness ==
    /\ pc = "done" /\ Cardinality(UsableAt) = 2
    /\ LowerMiddle = 376 /\ UpperMiddle = 400
    /\ body_size = 388 /\ round05(body_size) # body_size
    /\ \E p \in 1..Len(Pages) : ~Pages[p].ok /\ Pages[p].blocks # <<>>
    /\ \E i \in 1..Len(AllSpans) : isalpha_any(AllSpans[i].text) /\ AllSpans[i].size = 0

----------------------------------------------------------------------------
(* Properties of the application *)

\* C22: whenever a scan has been made, it reports has_toc = TRUE exactly for
\* the files whose embedded outline is not empty.
C22_ScanReportsEmbeddedToc ==
    current_plan # None =>
        \A f \in Files : current_plan[1][f].has_toc = (EmbeddedToc(f) # <<>>)

\* C23: a file without a record is not bookmarked; toggle_bookmark returns
\* the negation of the status it found, and that value is the status stored;
\* after n toggles from no record a file is bookmarked exactly when n is odd.
C23_ToggleNegatesAndPersists ==
    /\ \A f \in Files : pdf_metadata[f] = None => ~is_bookmarked(f)
    /\ \A f \in Files : is_bookmarked(f) = (toggles[f] % 2 = 1)
    /\ result.op = "toggle_bookmark" =>
           /\ result.value = ~result.before
           /\ is_bookmarked(result.file) = result.value

\* the third toggle of a file with tags has returned True, beside a file
\* toggled twice
C23_Witness ==
    /\ result.op = "toggle_bookmark" /\ result.value
    /\ toggles[result.file] = 3 /\ is_bookmarked(result.file)
    /\ get_pdf_metadata(pdf_metadata, result.file).tags = "work"
    /\ \E g \in Files : toggles[g] = 2 /\ ~is_bookmarked(g)

\* C24: a toggle_bookmark on a file leaves its tags, notes and stored
\* bookmarks as they were (empty ones for a file without a record) and
\* changes no field of the record of any other file.
C24_ToggleChangesOnlyFlag ==
    [][\A f \in Files :
          toggles'[f] # toggles[f] =>
              /\ get_pdf_metadata(pdf_metadata', f).tags
                     = get_pdf_metadata(pdf_metadata, f).tags
              /\ get_pdf_metadata(pdf_metadata', f).notes
                     = get_pdf_metadata(pdf_metadata, f).notes
              /\ get_pdf_metadata(pdf_metadata', f).bookmarks
                     = get_pdf_metadata(pdf_metadata, f).bookmarks
              /\ \A g \in Files \ {f} : pdf_metadata'[g] = pdf_metadata[g]]_vars

\* a file with tags, notes and a stored outline has been toggled, beside
\* another file that has a record
C24_Witness ==
    /\ result.op = "toggle_bookmark" /\ result.value
    /\ pdf_metadata[result.file] # None
    /\ pdf_metadata[result.file][1].tags = "work"
    /\ pdf_metadata[result.file][1].notes = "important"
    /\ pdf_metadata[result.file][1].bookmarks # <<>>
    /\ pdf_metadata[result.file][1].is_bookmarked = 1
    /\ \E g \in Files \ {result.file} :
           pdf_metadata[g] # None /\ pdf_metadata[g][1].tags = "work"

\* C25: get_root_history returns every saved path once, the latest saved
\* first.
C25_MostRecentSaveFirst ==
    result.op = "get_root_history" => result.value = recent

----------------------------------------------------------------------------
(* The per-page fallback *)

\* C26: while a page has shown no heading, the size of its fallback
\* candidate maps to no heading size, so the size-mapping branch of the
\* fallback assigns no level; and every entry of a scanned page without a
\* heading line, which is the fallback entry, has the deepest configured
\* level (1 when the table is empty).
C26_FallbackAtDeepestLevel ==
    /\ (pc = "line" /\ ~page_had_heading) =>
           /\ size_level(heading_sizes, round05(page_best_size)) = None
           /\ fallback_level(heading_sizes, page_best_size) = DeepestLevel
    /\ \A q \in ScannedPages :
           ~HasHeading(q) =>
               \A i \in 1..Len(EntriesOf(q)) : EntriesOf(q)[i][1] = DeepestLevel

\* two heading sizes from page 1; page 2 has text but no heading and has
\* got the fallback entry at level 2
C26_Witness ==
    /\ pc = "done" /\ force_page_heading /\ Len(heading_sizes) = 2
    /\ Len(Pages) = 2 /\ Pages[1].ok /\ Pages[2].ok
    /\ HasHeading(1) /\ ~HasHeading(2) /\ Candidates(2) # {}
    /\ EntriesOf(2) = << <<2, line_text(TextLines(2)[BestLine(2)]), 2>> >>

----------------------------------------------------------------------------
(* Order and depth in the reconstructed forest *)

\* C27: after every step of the reconstruction, on any flat input, the
\* pre-order walk of the forest built so far (roots in list order, children
\* in list order) visits the nodes in the order of the input entries.
C27_PreorderIsInputOrder ==
    Preorder(nodes, toc_tree) = [i \in 1..Len(nodes) |-> i]

\* the malformed outline of levels 3, 0, 2: two roots, the third entry
\* below the second
C27_Witness ==
    /\ tpc = "done" /\ Len(toc_raw) = 3
    /\ toc_raw[1].lvl = 3 /\ toc_raw[2].lvl = 0 /\ toc_raw[3].lvl = 2
    /\ toc_tree = <<1, 2>> /\ nodes[2].children = <<3>>
    /\ Preorder(nodes, toc_tree) = <<1, 2, 3>>

\* the depth of node i in the forest of the nodes ns (a root has depth 1)
RECURSIVE DepthIn(_, _)
DepthIn(ns, i) ==
    LET parents == {k \in 1..Len(ns) :
                       \E c \in 1..Len(ns[k].children) : ns[k].children[c] = i}
    IN  IF parents = {} THEN 1 ELSE 1 + DepthIn(ns, CHOOSE k \in parents : TRUE)

StrictlyIncreasing(st) == \A k \in 1..(Len(st) - 1) : st[k].level < st[k + 1].level

\* C28: on outlines whose levels are all >= 1, after every step of
\* extract_toc and of get_toc the levels on the ancestor stack strictly
\* increase from bottom to top, and every node sits at a depth that is at
\* most its level.
C28_DepthWithinLevel ==
    /\ StrictlyIncreasing(stack) /\ StrictlyIncreasing(r_stack)
    /\ \A i \in 1..Len(nodes) : DepthIn(nodes, i) <= toc_raw[i].lvl
    /\ \A i \in 1..Len(r_nodes) : DepthIn(r_nodes, i) <= r_raw[i].lvl

\* the levels 2, 3, 3: a root of level 2 with two children of level 3 at
\* depth 2, in both reconstructions
C28_Witness ==
    /\ rpc = "done" /\ Len(toc_raw) = 3
    /\ toc_raw[1].lvl = 2 /\ toc_raw[2].lvl = 3 /\ toc_raw[3].lvl = 3
    /\ DepthIn(nodes, 1) = 1 /\ DepthIn(nodes, 2) = 2 /\ DepthIn(nodes, 3) = 2
    /\ DepthIn(r_nodes, 3) = 2
    /\ Len(stack) = 2 /\ Len(r_stack) = 2

\* page q has a line with a span that has a letter and a size > 0
HasUsableLine(q) ==
    \E k \in 1..Len(TextLines(q)) : \E j \in 1..Len(TextLines(q)[k]) :
        isalpha_any(TextLines(q)[k][j].text) /\ TextLines(q)[k][j].size > 0

\* C29: with force_page_heading, every scanned page that has a line with a
\* letter of size > 0 has at least one entry, and a page without heading
\* line, whose entry is the fallback entry, has no second entry; the outline
\* returned holds these entries.
C29_EveryTextPageHasEntry ==
    force_page_heading =>
        /\ \A q \in ScannedPages :
               /\ HasUsableLine(q) => EntriesOf(q) # <<>>
               /\ ~HasHeading(q) => Len(EntriesOf(q)) <= 1
        /\ (pc = "done" /\ returns # <<>>) =>
               \A q \in 1..Len(Pages) :
                   (Pages[q].ok /\ HasUsableLine(q)) =>
                       \E i \in 1..Len(self_toc) : self_toc[i][3] = q

\* no heading anywhere: two pages with the same text have one fallback
\* entry each, with the same title
C29_Witness ==
    /\ pc = "done" /\ force_page_heading /\ Len(Pages) = 2
    /\ Pages[1].ok /\ Pages[2].ok
    /\ ~HasHeading(1) /\ ~HasHeading(2)
    /\ HasUsableLine(1) /\ HasUsableLine(2)
    /\ Len(self_toc) = 2 /\ self_toc[1][3] = 1 /\ self_toc[2][3] = 2
    /\ self_toc[1][2] = self_toc[2][2]

----------------------------------------------------------------------------
(* The modified flag over the life of the model *)

\* the calls that returned
Returns == {i \in 1..Len(calls) : calls[i].ok}

\* C30: modified is true exactly when the last call that returned is an
\* auto_generate_toc (none of set_document, clear, save_inplace, save_copy
\* has returned since); and a call that raises leaves toc, generated and
\* modified as they were.
C30_ModifiedSinceLastReset ==
    /\ [](modified <=> (Returns # {} /\ calls[SetMax(Returns)].op = "auto_generate_toc"))
    /\ [][(Len(calls') > Len(calls) /\ ~calls'[Len(calls')].ok) =>
              /\ self_toc' = self_toc
              /\ generated' = generated
              /\ modified' = modified]_vars

\* a generated outline is still unsaved after a save that raised with the
\* document and the path set, following a save_copy that had reset the flag
C30_Witness ==
    /\ Len(calls) = 4 /\ modified /\ generated /\ self_toc # <<>>
    /\ doc # None /\ pdf_path # None
    /\ calls[1].op = "set_document"
    /\ calls[2].op = "auto_generate_toc" /\ calls[2].ok
    /\ calls[3].op = "auto_generate_toc" /\ calls[3].ok
    /\ calls[4].op = "save_inplace" /\ ~calls[4].ok

====
